---- MODULE Spec2Model ----
(***************************************************************************)
(* Model of the SD-WAN hospital network simulation                         *)
(* (simulator/frontend/src/simulation/NetworkSimulation.js) and of the     *)
(* control handlers that drive it (simulator/frontend/src/App.jsx).        *)
(*                                                                         *)
(* Numbers.  The program computes in IEEE doubles; the model computes in   *)
(* integers:                                                               *)
(*   - rates, loads and capacities are whole Mbps;                         *)
(*   - time is the millisecond clock Date.now(); dt is kept in ms, so the  *)
(*     time-sliced quantities capacity*dt and amount*dt are 1000 times     *)
(*     the program's (both sides of every comparison scale alike);         *)
(*   - ratios in [0,1] (packetLoss, bufferOccupancy, entropy) are kept in  *)
(*     thousandths (Milli); threshold tests on a ratio are made on the     *)
(*     exact quotient, as the program's comparison of doubles is;          *)
(*   - latencies (ewmaRtt, currentRtt, jitter) are kept in thousandths of  *)
(*     a millisecond;                                                      *)
(*   - Math.random() is a value r/RandDen, r in 0..RandDen-1, taken from   *)
(*     a substitutable source Random(seed, site).                          *)
(***************************************************************************)
EXTENDS Integers, Sequences, FiniteSets, TLC

VARIABLES
    links,        \* NetworkSimulation.links: the Link records, in key insertion order
    graph,        \* NetworkSimulation.graph: node -> sequence of neighbours
    alerts,       \* NetworkSimulation.alerts
    running,      \* NetworkSimulation.running
    trafficMode,  \* NetworkSimulation.trafficMode
    clock,        \* Date.now(), in ms
    trace,        \* history variable: per link, what its last update() did
                  \* (AlertSpec: every addAlert call made; PathSpec: the last
                  \* shortestPath call and its result)
    op,           \* history variable: the last operation invoked, with its argument
    ticks,        \* history variable: number of running ticks so far
                  \* (AlertSpec: number of addAlert calls made)
    resets,       \* history variable: number of resets so far
    elapses       \* history variable: number of clock advances so far

vars == <<links, graph, alerts, running, trafficMode, clock, trace, op, ticks, resets, elapses>>

---------------------------------------------------------------------------
(* Bounds of the exploration *)

\* running ticks, resets and clock advances of one run of the simulation
MaxSteps == 3
\* updates of the single link, and flows offered to it in one tick
MaxLinkUpdates == 2
MaxFlows == 2
\* addAlert calls made on an alert log
MaxAlerts == 4

Elapses == {500}
Seeds == {1, 2}

---------------------------------------------------------------------------
(* Scales *)

Milli == 1000
RandDen == 16

Min(a, b) == IF a < b THEN a ELSE b
Max(a, b) == IF a > b THEN a ELSE b

RECURSIVE SumSeq(_)
SumSeq(s) == IF s = <<>> THEN 0 ELSE Head(s) + SumSeq(Tail(s))

\* Math.random(): the value Random(seed, site)/RandDen, in [0,1)
Random(seed, site) == (seed * (2 * site + 1) + (site * site) \div 3 + 5 * (seed \div 2)) % RandDen

\* lo + Math.random() * span, in whole units
RandAmount(lo, span, r) == lo + (span * r) \div RandDen

---------------------------------------------------------------------------
(* Traffic classes and priorities *)

GOLD == "GOLD"
SILVER == "SILVER"
BRONZE == "BRONZE"
TrafficPriority == {GOLD, SILVER, BRONZE}

VOIP == "VOIP"
DICOM == "DICOM"
EMR == "EMR"
GUEST == "GUEST"
ATTACK == "DDOS"
IOT == "IOT"
DNS == "DNS"
HTTP == "HTTP"
NTP == "NTP"
TrafficType == {VOIP, DICOM, EMR, GUEST, ATTACK, IOT, DNS, HTTP, NTP}

\* TRAFFIC_PRIORITY_MAP[type] || TrafficPriority.BRONZE
TRAFFIC_PRIORITY_MAP(type) ==
    CASE type \in {VOIP, EMR, DNS, NTP} -> GOLD
      [] type \in {DICOM, IOT} -> SILVER
      [] type \in {GUEST, ATTACK, HTTP} -> BRONZE
      [] OTHER -> BRONZE

PRIORITY_WEIGHTS(priority) ==
    CASE priority = GOLD -> 10
      [] priority = SILVER -> 3
      [] OTHER -> 1

getWeight(t) == PRIORITY_WEIGHTS(TRAFFIC_PRIORITY_MAP(t.type))

Flow(type, amount) == [type |-> type, amount |-> amount]

\* the value of the history variable op: the operation and its argument
Op(name, arg) == [name |-> name, arg |-> arg]

---------------------------------------------------------------------------
(* class Link *)

\* this.ewmaAlpha = 0.125, as the fraction 1/EwmaAlphaDen
EwmaAlphaDen == 8
\* loadHistory is limited to the last 50 samples
HistoryLimit == 50

\* mutant: a new link starts with an empty token bucket
LinkEmptyBucket(source, target, capacityMbps, baseLatencyMs, now) ==
    [ source |-> source,
      target |-> target,
      capacity |-> capacityMbps,
      baseLatency |-> baseLatencyMs,
      currentLoad |-> 0,
      packetLoss |-> 0,
      jitter |-> 0,
      activeTraffic |-> <<>>,
      goldDrops |-> 0,
      silverDrops |-> 0,
      bronzeDrops |-> 0,
      goldServed |-> 0,
      silverServed |-> 0,
      bronzeServed |-> 0,
      bufferOccupancy |-> 0,
      chokeActive |-> FALSE,
      ewmaRtt |-> baseLatencyMs * Milli,
      currentRtt |-> baseLatencyMs * Milli,
      bucketCapacity |-> (capacityMbps * Milli) \div 2,
      tokens |-> 0,
      lastUpdateTime |-> now,
      entropy |-> Milli,
      loadHistory |-> <<>> ]

\* new Link(source, target, capacityMbps, baseLatencyMs), constructed at time now
Link(source, target, capacityMbps, baseLatencyMs, now) ==
    [ source |-> source,
      target |-> target,
      capacity |-> capacityMbps,
      baseLatency |-> baseLatencyMs,
      currentLoad |-> 0,
      packetLoss |-> 0,
      jitter |-> 0,
      activeTraffic |-> <<>>,
      goldDrops |-> 0,
      silverDrops |-> 0,
      bronzeDrops |-> 0,
      goldServed |-> 0,
      silverServed |-> 0,
      bronzeServed |-> 0,
      bufferOccupancy |-> 0,
      chokeActive |-> FALSE,
      ewmaRtt |-> baseLatencyMs * Milli,
      currentRtt |-> baseLatencyMs * Milli,
      bucketCapacity |-> (capacityMbps * Milli) \div 2,
      tokens |-> (capacityMbps * Milli) \div 2,
      lastUpdateTime |-> now,
      entropy |-> Milli,
      loadHistory |-> <<>> ]

\* mutant: the flows are processed in generation order, unsorted
UnsortedTraffic(activeTraffic) == activeTraffic

\* [...activeTraffic].sort((a, b) => getWeight(b) - getWeight(a)): a stable
\* sort by descending weight, over the three weights there are
SortedTraffic(activeTraffic) ==
    SelectSeq(activeTraffic, LAMBDA t : getWeight(t) = 10)
    \o SelectSeq(activeTraffic, LAMBDA t : getWeight(t) = 3)
    \o SelectSeq(activeTraffic, LAMBDA t : getWeight(t) = 1)

RECURSIVE TotalLoad(_)
\* activeTraffic.reduce((sum, t) => sum + t.amount, 0)
TotalLoad(activeTraffic) ==
    IF activeTraffic = <<>> THEN 0
    ELSE Head(activeTraffic).amount + TotalLoad(Tail(activeTraffic))

\* capacity > 0 ? Math.min(1.0, totalLoad / capacity) : 0, in thousandths
BufferOccupancy(totalLoad, capacity) ==
    IF capacity > 0 THEN Min(Milli, (totalLoad * Milli) \div capacity) ELSE 0

\* mutant: choke is active at occupancy 0.7 too
ChokeActiveInclusive(totalLoad, capacity) ==
    capacity > 0 /\ totalLoad * 10 >= 7 * capacity

\* this.bufferOccupancy > 0.7, on the exact quotient
ChokeActive(totalLoad, capacity) ==
    capacity > 0 /\ totalLoad * 10 > 7 * capacity

\* mutant: the low-load exception taken at occupancy 0.1 too
LowLoadInclusive(totalLoad, capacity) ==
    capacity > 0 => totalLoad * 10 <= capacity

\* this.bufferOccupancy < 0.1, on the exact quotient
LowLoad(totalLoad, capacity) ==
    capacity > 0 => totalLoad * 10 < capacity

\* the drop branch: the flow's own priority counter is incremented
DropFlow(st, priority) ==
    [st EXCEPT !.goldDrops = IF priority = GOLD THEN @ + 1 ELSE @,
               !.silverDrops = IF priority = SILVER THEN @ + 1 ELSE @,
               !.bronzeDrops = IF priority \notin {GOLD, SILVER} THEN @ + 1 ELSE @]

\* the admit branch: capacity is consumed, the rate is added to servedLoad
ServeFlow(st, priority, traffic, amount) ==
    [st EXCEPT !.remainingCapacity = @ - amount,
               !.servedLoad = @ + traffic.amount,
               !.goldServed = IF priority = GOLD THEN @ + 1 ELSE @,
               !.silverServed = IF priority = SILVER THEN @ + 1 ELSE @,
               !.bronzeServed = IF priority \notin {GOLD, SILVER} THEN @ + 1 ELSE @]

\* mutant: preemption takes the served bronze flow away without counting a drop
PreemptBronzeUncounted(st, traffic, amount) ==
    [st EXCEPT !.bronzeServed = @ - 1,
               !.remainingCapacity = @ + amount,
               !.servedLoad = @ + traffic.amount,
               !.goldServed = @ + 1]

\* the preemption branch: a served bronze flow is turned into a drop
PreemptBronze(st, traffic, amount) ==
    [st EXCEPT !.bronzeDrops = @ + 1,
               !.bronzeServed = @ - 1,
               !.remainingCapacity = @ + amount,
               !.servedLoad = @ + traffic.amount,
               !.goldServed = @ + 1]

\* mutant: only bronze flows are dropped on choke
ChokeDropsBronzeOnly(chokeActive, priority) == chokeActive /\ priority = BRONZE

\* mutant: choke drops every flow, gold included
ChokeDropsAll(chokeActive, priority) == chokeActive

\* mutant: no flow is dropped on choke
ChokeDropsNone(chokeActive, priority) == FALSE

\* the choke test of the admission loop
ChokeDrops(chokeActive, priority) == chokeActive /\ priority # GOLD

\* mutant: a GOLD flow preempts whether or not a bronze flow is counted served
CanPreemptAlways(st, priority) == priority = GOLD

\* the preemption test of the admission loop
CanPreempt(st, priority) == priority = GOLD /\ st.bronzeServed > 0

\* mutant: the demand of a flow is taken over a fixed quantum of 50 ms (the
\* 20 Hz cadence), whatever time has elapsed
OutcomeFixedQuantum(st, traffic, dt, chokeActive) ==
    LET priority == TRAFFIC_PRIORITY_MAP(traffic.type)
        amount == traffic.amount * 50
    IN  IF ChokeDrops(chokeActive, priority) THEN "choked"
        ELSE IF amount <= st.remainingCapacity THEN "served"
        ELSE IF CanPreempt(st, priority) THEN "preempted"
        ELSE "dropped"

\* the branch the admission loop takes for one flow
Outcome(st, traffic, dt, chokeActive) ==
    LET priority == TRAFFIC_PRIORITY_MAP(traffic.type)
        amount == traffic.amount * dt
    IN  IF ChokeDrops(chokeActive, priority) THEN "choked"
        ELSE IF amount <= st.remainingCapacity THEN "served"
        ELSE IF CanPreempt(st, priority) THEN "preempted"
        ELSE "dropped"

\* one iteration of "for (const traffic of sortedTraffic)"; st holds the
\* loop's locals and the six counters, st.log the decisions taken so far
AdmitFlow(st, traffic, dt, chokeActive) ==
    LET priority == TRAFFIC_PRIORITY_MAP(traffic.type)
        amount == traffic.amount * dt
        outcome == Outcome(st, traffic, dt, chokeActive)
        entry == [ type |-> traffic.type,
                   amount |-> traffic.amount,
                   priority |-> priority,
                   remaining |-> st.remainingCapacity,
                   bronzeServed |-> st.bronzeServed,
                   outcome |-> outcome ]
        next == CASE outcome = "choked" -> DropFlow(st, priority)
                  [] outcome = "served" -> ServeFlow(st, priority, traffic, amount)
                  [] outcome = "preempted" -> PreemptBronze(st, traffic, amount)
                  [] OTHER -> DropFlow(st, priority)
    IN  [next EXCEPT !.log = Append(st.log, entry)]

RECURSIVE AdmitAll(_, _, _, _)
\* the whole admission loop
AdmitAll(st, sortedTraffic, dt, chokeActive) ==
    IF sortedTraffic = <<>> THEN st
    ELSE AdmitAll(AdmitFlow(st, Head(sortedTraffic), dt, chokeActive),
                  Tail(sortedTraffic), dt, chokeActive)

\* mutant: at the limit the newest sample is removed (pop() for shift())
PushHistoryDropNewest(loadHistory, load) ==
    LET pushed == Append(loadHistory, load)
    IN  IF Len(pushed) > HistoryLimit THEN SubSeq(pushed, 1, HistoryLimit) ELSE pushed

\* loadHistory.push(currentLoad); if (length > 50) shift()
PushHistory(loadHistory, load) ==
    LET pushed == Append(loadHistory, load)
    IN  IF Len(pushed) > HistoryLimit THEN Tail(pushed) ELSE pushed

\* mutant: the served share of the offered load, not the lost share
PacketLossServedShare(servedLoad, totalLoad) ==
    IF totalLoad > 0
    THEN Max(0, (servedLoad * Milli) \div totalLoad)
    ELSE 0

\* totalLoad > 0 ? 1.0 - servedLoad / totalLoad : 0.0, clamped at 0; thousandths
PacketLoss(servedLoad, totalLoad) ==
    IF totalLoad > 0
    THEN Max(0, Milli - (servedLoad * Milli) \div totalLoad)
    ELSE 0

\* instantRtt before jitter, in thousandths of a ms
InstantRtt(servedLoad, capacity, baseLatency) ==
    IF capacity > 0 /\ servedLoad * 10 > 6 * capacity
    THEN baseLatency * Milli
         + (baseLatency * Milli * (15 * servedLoad - 9 * capacity)) \div capacity
    ELSE baseLatency * Milli

\* (utilization < 0.8) ? Math.random() * 2 : 5 + Math.random() * 20
Jitter(servedLoad, capacity, r) ==
    IF capacity = 0 \/ servedLoad * 10 < 8 * capacity
    THEN RandAmount(0, 2 * Milli, r)
    ELSE RandAmount(5 * Milli, 20 * Milli, r)

\* (1 - ewmaAlpha) * ewmaRtt + ewmaAlpha * instantRtt
Ewma(ewmaRtt, instantRtt) ==
    ((EwmaAlphaDen - 1) * ewmaRtt + instantRtt) \div EwmaAlphaDen

RECURSIVE IntLog2(_, _)
\* the largest k with b * 2^k <= a, for a >= b > 0
IntLog2(a, b) == IF 2 * b <= a THEN 1 + IntLog2(a, 2 * b) ELSE 0

RECURSIVE Pow2(_)
Pow2(k) == IF k = 0 THEN 1 ELSE 2 * Pow2(k - 1)

RECURSIVE FracLog2(_, _, _, _)
\* the fraction bits of log2(x / 1024) for x in [1024, 2048), by repeated
\* squaring; the result is in 1024ths
FracLog2(x, n, w, acc) ==
    IF n = 0 THEN acc
    ELSE LET y == (x * x) \div 1024
         IN  IF y >= 2048
             THEN FracLog2(y \div 2, n - 1, w \div 2, acc + w)
             ELSE FracLog2(y, n - 1, w \div 2, acc)

\* Math.log2(a / b) in thousandths, for a >= b > 0
Log2Milli(a, b) ==
    LET k == IntLog2(a, b)
        x == (a * 1024) \div (b * Pow2(k))
    IN  k * Milli + (FracLog2(x, 10, 512, 0) * Milli) \div 1024

\* Object.keys(typeVol): the traffic types offered
TypesOf(activeTraffic) == { activeTraffic[i].type : i \in DOMAIN activeTraffic }

\* typeVol[type]
TypeVol(activeTraffic, type) ==
    TotalLoad(SelectSeq(activeTraffic, LAMBDA t : t.type = type))

RECURSIVE EntropySum(_, _, _)
\* entropySum -= p * Math.log2(p) over the types, in thousandths
EntropySum(types, activeTraffic, totalLoad) ==
    IF types = {} THEN 0
    ELSE LET type == CHOOSE x \in types : TRUE
             vol == TypeVol(activeTraffic, type)
             term == IF vol > 0 THEN (vol * Log2Milli(totalLoad, vol)) \div totalLoad ELSE 0
         IN  term + EntropySum(types \ {type}, activeTraffic, totalLoad)

\* mutant: the entropy in bits, neither divided by Math.log2(numTypes) nor
\* clamped
EntropyInBits(activeTraffic, totalLoad, capacity) ==
    IF totalLoad > 0
    THEN LET types == TypesOf(activeTraffic)
             numTypes == Cardinality(types)
         IN  IF numTypes > 1
             THEN EntropySum(types, activeTraffic, totalLoad)
             ELSE IF LowLoad(totalLoad, capacity) THEN Milli ELSE 0
    ELSE Milli

\* step 4 of update(): the normalized Shannon entropy, in thousandths
Entropy(activeTraffic, totalLoad, capacity) ==
    IF totalLoad > 0
    THEN LET types == TypesOf(activeTraffic)
             numTypes == Cardinality(types)
         IN  IF numTypes > 1
             THEN Min(Milli, (EntropySum(types, activeTraffic, totalLoad) * Milli)
                             \div Log2Milli(numTypes, 1))
             ELSE IF LowLoad(totalLoad, capacity) THEN Milli ELSE 0
    ELSE Milli

\* what trace records of a link that has not been updated
NoTrace == [ ran |-> FALSE, dt |-> 0, chokeActive |-> FALSE, totalLoad |-> 0,
             servedLoad |-> 0, log |-> <<>> ]

\* mutant: only a negative dt makes update() return early
NoTimeElapsedStrict(dt) == dt < 0

\* if (dt <= 0) return
NoTimeElapsed(dt) == dt <= 0

\* Link.update() at time now, with r the random draw of the jitter.
\* The result is the link after the call and the record of what the call did.
LinkUpdate(l, now, r) ==
    LET dt == now - l.lastUpdateTime
        totalLoad == TotalLoad(l.activeTraffic)
        chokeActive == ChokeActive(totalLoad, l.capacity)
        st0 == [ remainingCapacity |-> l.capacity * dt,
                 servedLoad |-> 0,
                 goldDrops |-> l.goldDrops,
                 silverDrops |-> l.silverDrops,
                 bronzeDrops |-> l.bronzeDrops,
                 goldServed |-> l.goldServed,
                 silverServed |-> l.silverServed,
                 bronzeServed |-> l.bronzeServed,
                 log |-> <<>> ]
        st == AdmitAll(st0, SortedTraffic(l.activeTraffic), dt, chokeActive)
        jitter == Jitter(st.servedLoad, l.capacity, r)
        instantRtt == InstantRtt(st.servedLoad, l.capacity, l.baseLatency) + jitter
    IN  IF NoTimeElapsed(dt)
        THEN [ link |-> l, tr |-> NoTrace ]
        ELSE [ link |->
                 [l EXCEPT
                    !.lastUpdateTime = now,
                    !.tokens = Min(l.bucketCapacity, l.tokens + l.capacity * dt),
                    !.bufferOccupancy = BufferOccupancy(totalLoad, l.capacity),
                    !.chokeActive = chokeActive,
                    !.goldDrops = st.goldDrops,
                    !.silverDrops = st.silverDrops,
                    !.bronzeDrops = st.bronzeDrops,
                    !.goldServed = st.goldServed,
                    !.silverServed = st.silverServed,
                    !.bronzeServed = st.bronzeServed,
                    !.currentLoad = totalLoad,
                    !.loadHistory = PushHistory(l.loadHistory, totalLoad),
                    !.packetLoss = PacketLoss(st.servedLoad, totalLoad),
                    !.jitter = jitter,
                    !.ewmaRtt = Ewma(l.ewmaRtt, instantRtt),
                    !.currentRtt = instantRtt,
                    !.entropy = Entropy(l.activeTraffic, totalLoad, l.capacity)],
               tr |-> [ ran |-> TRUE, dt |-> dt, chokeActive |-> chokeActive,
                        totalLoad |-> totalLoad, servedLoad |-> st.servedLoad,
                        log |-> st.log ] ]

---------------------------------------------------------------------------
(* class NetworkSimulation: topology *)

\* this.nodes, by id, as setupNetworkFloors() lists them
Nodes == << "Server Room", "ICU-A", "ICU-B", "OT-1", "Radiology", "Lab",
            "Admin", "Wards", "Public-Wifi" >>

NodeSet == { Nodes[i] : i \in DOMAIN Nodes }

\* the addLink(u, v, cap, lat) calls of setupNetworkFloors(), in order
FloorLinks ==
    << << "Server Room", "ICU-A", 2000, 1 >>,
       << "Server Room", "ICU-B", 2000, 1 >>,
       << "Server Room", "Radiology", 5000, 2 >>,
       << "Server Room", "Admin", 1000, 3 >>,
       << "ICU-A", "OT-1", 1000, 1 >>,
       << "Radiology", "ICU-A", 1000, 2 >>,
       << "Radiology", "Lab", 800, 2 >>,
       << "Lab", "Server Room", 600, 3 >>,
       << "Admin", "Public-Wifi", 500, 5 >>,
       << "Admin", "Wards", 500, 3 >> >>

\* the position of key `${u}-${v}` in this.links, 0 when the key is absent
LinkIndex(ls, u, v) ==
    IF \E i \in DOMAIN ls : ls[i].source = u /\ ls[i].target = v
    THEN CHOOSE i \in DOMAIN ls : ls[i].source = u /\ ls[i].target = v
    ELSE 0

\* this.links[`${l.source}-${l.target}`] = l: an existing key keeps its place
\* in the key order, a new key goes last
PutLink(ls, l) ==
    LET i == LinkIndex(ls, l.source, l.target)
    IN  IF i = 0 THEN Append(ls, l) ELSE [ls EXCEPT ![i] = l]

\* mutant: only the link u -> v is created and only v is made a neighbour
AddLinkOneWay(net, u, v, cap, lat, now) ==
    [ links |-> PutLink(net.links, Link(u, v, cap, lat, now)),
      graph |-> [n \in NodeSet |->
                    IF n = u THEN Append(net.graph[n], v) ELSE net.graph[n]] ]

\* mutant: both nodes become neighbours but only the link u -> v is stored
AddLinkSingleRecord(net, u, v, cap, lat, now) ==
    [ links |-> PutLink(net.links, Link(u, v, cap, lat, now)),
      graph |-> [n \in NodeSet |->
                    IF n = u /\ n = v THEN net.graph[n] \o << v, u >>
                    ELSE IF n = u THEN Append(net.graph[n], v)
                    ELSE IF n = v THEN Append(net.graph[n], u)
                    ELSE net.graph[n]] ]

\* addLink(u, v, cap, lat) at time now; net holds this.links and this.graph
AddLink(net, u, v, cap, lat, now) ==
    [ links |-> PutLink(PutLink(net.links, Link(u, v, cap, lat, now)),
                        Link(v, u, cap, lat, now)),
      graph |-> [n \in NodeSet |->
                    IF n = u /\ n = v THEN net.graph[n] \o << v, u >>
                    ELSE IF n = u THEN Append(net.graph[n], v)
                    ELSE IF n = v THEN Append(net.graph[n], u)
                    ELSE net.graph[n]] ]

RECURSIVE AddLinks(_, _, _)
AddLinks(net, floorLinks, now) ==
    IF floorLinks = <<>> THEN net
    ELSE LET e == Head(floorLinks)
         IN  AddLinks(AddLink(net, e[1], e[2], e[3], e[4], now), Tail(floorLinks), now)

\* setupNetworkFloors() at time now: this.links and this.graph are the ones
\* the object already has, and every addLink adds to them
SetupNetworkFloors(net, now) == AddLinks(net, FloorLinks, now)

\* the maps of the constructor, before setupNetworkFloors(): {} and {}
EmptyNet == [ links |-> <<>>, graph |-> [n \in NodeSet |-> <<>>] ]

RECURSIVE Expand(_, _, _)
\* "for (const neighbor of neighbors)" of shortestPath: bfs is the queue and
\* the visited set
Expand(bfs, neighbors, path) ==
    IF neighbors = <<>> THEN bfs
    ELSE LET neighbor == Head(neighbors)
         IN  IF neighbor \notin bfs.visited
             THEN Expand([ queue |-> Append(bfs.queue, Append(path, neighbor)),
                           visited |-> bfs.visited \cup {neighbor} ],
                         Tail(neighbors), path)
             ELSE Expand(bfs, Tail(neighbors), path)

RECURSIVE SearchNewestFirst(_, _, _)
\* mutant: the loop takes the newest path of the queue (pop() for shift())
SearchNewestFirst(g, bfs, end) ==
    IF bfs.queue = <<>> THEN <<>>
    ELSE LET path == bfs.queue[Len(bfs.queue)]
             node == path[Len(path)]
             rest == SubSeq(bfs.queue, 1, Len(bfs.queue) - 1)
         IN  IF node = end THEN path
             ELSE SearchNewestFirst(g, Expand([bfs EXCEPT !.queue = rest], g[node], path), end)

RECURSIVE Search(_, _, _)
\* "while (queue.length > 0)" of shortestPath; <<>> stands for null
Search(g, bfs, end) ==
    IF bfs.queue = <<>> THEN <<>>
    ELSE LET path == Head(bfs.queue)
             node == path[Len(path)]
         IN  IF node = end THEN path
             ELSE Search(g, Expand([bfs EXCEPT !.queue = Tail(@)], g[node], path), end)

\* shortestPath(start, end) over the adjacency map g
ShortestPath(g, start, end) ==
    Search(g, [ queue |-> << << start >> >>, visited |-> {start} ], end)

\* path[i], path[i + 1] is the key of link l for some i
OnPath(path, l) ==
    \E i \in 1..(Len(path) - 1) : path[i] = l.source /\ path[i + 1] = l.target

\* the i with path[i], path[i + 1] the key of link l
HopOf(path, l) ==
    CHOOSE i \in 1..(Len(path) - 1) : path[i] = l.source /\ path[i + 1] = l.target

---------------------------------------------------------------------------
(* class NetworkSimulation: generateTraffic *)

\* The call sites of Math.random(), numbered so that every call of a tick
\* draws its own value from the source.  i is the position of a link in
\* Object.values(this.links), k a loop index.
SiteJitter == 1
SiteGlobalFactor == 2
SiteBase(i, k) == 10 * i + k
SiteBottleneckPick(k) == 300 + k
SiteBottleneckAmount(k) == 310 + k
SiteMeshCoin == 320
SiteMeshU == 321
SiteMeshV == 322
SiteMeshAmount == 323
SiteAttack(s, hop) == 400 + 10 * s + hop
SiteLinkJitter(i) == 500 + i
SiteZDevice(i) == 600 + i
SiteDDoSDevice(i) == 630 + i
SiteProtocol(i) == 660 + i
SiteLowEntropy(i) == 700 + i
SiteQoS == 750

\* Math.random() > num/den
RandomAbove(r, num, den) == r * den > num * RandDen

\* Math.floor(Math.random() * n), as a position 1..n
RandomIndex(r, n) == (r * n) \div RandDen + 1

\* jitter = 0.9 + Math.random() * 0.2, in thousandths
JitterFactor(seed) == RandAmount(900, 200, Random(seed, SiteJitter))

\* globalFactor = (1.2 + Math.random() * 0.6) * jitter, in thousandths
GlobalFactor(seed) ==
    (RandAmount(1200, 600, Random(seed, SiteGlobalFactor)) * JitterFactor(seed)) \div Milli

\* (lo + Math.random() * span) * factor, factor in thousandths
ScaledAmount(lo, span, r, factor) == (RandAmount(lo, span, r) * factor) \div Milli

\* 1. Base Traffic: the flows pushed on the link at position i
BaseTraffic(mode, seed, i) ==
    LET r(k) == Random(seed, SiteBase(i, k))
        gf == GlobalFactor(seed)
    IN  IF mode = "NORMAL"
        THEN << Flow(IOT, RandAmount(5, 5, r(0))),
                Flow(DNS, RandAmount(5, 5, r(1))),
                Flow(HTTP, RandAmount(5, 10, r(2))) >>
             \o (IF RandomAbove(r(3), 1, 2)
                 THEN << Flow(NTP, RandAmount(5, 5, r(4))) >> ELSE <<>>)
        ELSE IF mode = "CONGESTED"
        THEN << Flow(IOT, ScaledAmount(15, 10, r(0), gf)),
                Flow(DNS, ScaledAmount(15, 10, r(1), gf)),
                Flow(HTTP, ScaledAmount(30, 30, r(2), gf)),
                Flow(DICOM, ScaledAmount(60, 90, r(3), gf)),
                Flow(VOIP, ScaledAmount(30, 30, r(4), gf)) >>
        ELSE << Flow(IOT, RandAmount(5, 5, r(0))),
                Flow(DNS, RandAmount(5, 5, r(1))),
                Flow(HTTP, RandAmount(5, 10, r(2))),
                Flow(ATTACK, RandAmount(100, 200, r(3))) >>

\* the number of bottleneck picks of CONGESTED mode
Bottlenecks == 4

RECURSIVE BottleneckTraffic(_, _, _, _)
\* Bottlenecks: the EMR flows pushed on the link at position i out of n, for
\* the picks k..Bottlenecks-1
BottleneckTraffic(seed, i, n, k) ==
    IF k >= Bottlenecks THEN <<>>
    ELSE (IF RandomIndex(Random(seed, SiteBottleneckPick(k)), n) = i
          THEN << Flow(EMR, RandAmount(300, 300, Random(seed, SiteBottleneckAmount(k)))) >>
          ELSE <<>>)
         \o BottleneckTraffic(seed, i, n, k + 1)

\* 2. Random Mesh: the path the mesh flow is injected on, <<>> when none is
MeshPath(g, seed) ==
    LET u == Nodes[RandomIndex(Random(seed, SiteMeshU), Len(Nodes))]
        v == Nodes[RandomIndex(Random(seed, SiteMeshV), Len(Nodes))]
    IN  IF RandomAbove(Random(seed, SiteMeshCoin), 4, 10) /\ u # v
        THEN ShortestPath(g, u, v)
        ELSE <<>>

\* amount = (20 + Math.random() * 40) * jitter, doubled in CONGESTED mode
MeshAmount(mode, seed) ==
    LET amount == ScaledAmount(20, 40, Random(seed, SiteMeshAmount), JitterFactor(seed))
    IN  IF mode = "CONGESTED" THEN amount * 2 ELSE amount

\* 3. DDoS Attack Vector
AttackSources == << "Public-Wifi", "Lab", "Wards", "OT-1" >>
AttackTarget == "Server Room"

\* the paths of the attack sources to the target, <<>> for a null path
AttackPaths(g) == [s \in DOMAIN AttackSources |-> ShortestPath(g, AttackSources[s], AttackTarget)]

RECURSIVE AttackTrafficFirstHop(_, _, _, _)
\* mutant: each source floods the first link of its path only
AttackTrafficFirstHop(paths, seed, l, s) ==
    IF s > Len(AttackSources) THEN <<>>
    ELSE (IF OnPath(paths[s], l) /\ HopOf(paths[s], l) = 1
          THEN << Flow(ATTACK, RandAmount(3500, 2500,
                                          Random(seed, SiteAttack(s, HopOf(paths[s], l))))) >>
          ELSE <<>>)
         \o AttackTrafficFirstHop(paths, seed, l, s + 1)

RECURSIVE AttackTraffic(_, _, _, _)
\* the attack flows pushed on link l by the sources s..Len(AttackSources),
\* whose paths are paths
AttackTraffic(paths, seed, l, s) ==
    IF s > Len(AttackSources) THEN <<>>
    ELSE (IF OnPath(paths[s], l)
          THEN << Flow(ATTACK, RandAmount(3500, 2500,
                                          Random(seed, SiteAttack(s, HopOf(paths[s], l))))) >>
          ELSE <<>>)
         \o AttackTraffic(paths, seed, l, s + 1)

\* mutant: the flows of the tick before are kept, the new ones are added
GenerateTrafficKeeping(ls, g, mode, seed) ==
    LET meshPath == MeshPath(g, seed)
        meshAmount == MeshAmount(mode, seed)
        attackPaths == IF mode = "DDOS" THEN AttackPaths(g) ELSE <<>>
    IN  [i \in DOMAIN ls |->
            [ls[i] EXCEPT !.activeTraffic =
                ls[i].activeTraffic
                \o BaseTraffic(mode, seed, i)
                \o (IF mode = "CONGESTED" THEN BottleneckTraffic(seed, i, Len(ls), 0) ELSE <<>>)
                \o (IF OnPath(meshPath, ls[i])
                    THEN << Flow(HTTP, meshAmount) >> ELSE <<>>)
                \o (IF mode = "DDOS" THEN AttackTraffic(attackPaths, seed, ls[i], 1) ELSE <<>>)]]

\* generateTraffic(): the activeTraffic of every link after the call.  The
\* pushes on one link are listed in the order the program makes them.
GenerateTraffic(ls, g, mode, seed) ==
    LET meshPath == MeshPath(g, seed)
        meshAmount == MeshAmount(mode, seed)
        attackPaths == IF mode = "DDOS" THEN AttackPaths(g) ELSE <<>>
    IN  [i \in DOMAIN ls |->
            [ls[i] EXCEPT !.activeTraffic =
                BaseTraffic(mode, seed, i)
                \o (IF mode = "CONGESTED" THEN BottleneckTraffic(seed, i, Len(ls), 0) ELSE <<>>)
                \o (IF OnPath(meshPath, ls[i])
                    THEN << Flow(HTTP, meshAmount) >> ELSE <<>>)
                \o (IF mode = "DDOS" THEN AttackTraffic(attackPaths, seed, ls[i], 1) ELSE <<>>)]]

---------------------------------------------------------------------------
(* class NetworkSimulation: alerts and update *)

\* the alert log keeps the last 50 entries, a snapshot shows the last 10
AlertLimit == 50
SnapshotAlerts == 10
\* COMPROMISED_IOT_DEVICES.length
CompromisedDevices == 5

\* s.slice(-n)
LastN(s, n) == IF Len(s) > n THEN SubSeq(s, Len(s) - n + 1, Len(s)) ELSE s

\* now.toLocaleTimeString('en-US', { hour12: false }): the second of the day
TimeStr(now) == (now \div 1000) % 86400

\* mutant: the log is never trimmed
AddAlertUncapped(as, msg, level, now) ==
    LET timeStr == TimeStr(now)
    IN  IF Len(as) > 0 /\ as[Len(as)].msg = msg /\ as[Len(as)].time = timeStr
        THEN as
        ELSE Append(as, [time |-> timeStr, msg |-> msg, level |-> level])

\* mutant: the dedup compares the message only
AddAlertDedupByMsg(as, msg, level, now) ==
    LET timeStr == TimeStr(now)
    IN  IF Len(as) > 0 /\ as[Len(as)].msg = msg
        THEN as
        ELSE LastN(Append(as, [time |-> timeStr, msg |-> msg, level |-> level]), AlertLimit)

\* addAlert(msg, level) at time now, on the alert log as
AddAlert(as, msg, level, now) ==
    LET timeStr == TimeStr(now)
    IN  IF Len(as) > 0 /\ as[Len(as)].msg = msg /\ as[Len(as)].time = timeStr
        THEN as
        ELSE LastN(Append(as, [time |-> timeStr, msg |-> msg, level |-> level]), AlertLimit)

\* x.toFixed(1) of a value in thousandths, in tenths
ToFixed1(x) == (x + 50) \div 100

\* x.toFixed(2) of a value in thousandths, in hundredths
ToFixed2(x) == (x + 5) \div 10

\* the congestion severity score of a link, in thousandths
Css(l) ==
    LET delayFactor == Min(3 * Milli, l.ewmaRtt \div l.baseLatency)
        lossFactor == l.packetLoss * 10
        entropyFactor == Milli - l.entropy
    IN  delayFactor \div 2 + lossFactor * 20 + entropyFactor * 2

RECURSIVE SumSquares(_, _)
\* reduce((a, b) => a + Math.pow(b - avg, 2), 0)
SumSquares(s, avg) ==
    IF s = <<>> THEN 0
    ELSE (Head(s) - avg) * (Head(s) - avg) + SumSquares(Tail(s), avg)

RECURSIVE SqrtBetween(_, _, _)
\* the largest k in lo..hi with k * k <= n
SqrtBetween(n, lo, hi) ==
    IF lo >= hi THEN lo
    ELSE LET mid == (lo + hi + 1) \div 2
         IN  IF mid * mid <= n THEN SqrtBetween(n, mid, hi) ELSE SqrtBetween(n, lo, mid - 1)

\* Math.sqrt(n), rounded down
Sqrt(n) == SqrtBetween(n, 0, Min(n, 46340))

\* the samples the z-score check needs more than
ZScoreSamples == 10

\* the guard of the z-score block
ZScoreDue(l, mode) == mode # "NORMAL" /\ Len(l.loadHistory) > ZScoreSamples

\* the z-score block of update() for link l at position i: acc holds the
\* alert log and the two per-tick alert counts
ZScoreCheck(acc, l, i, mode, seed, now) ==
    IF ZScoreDue(l, mode)
    THEN LET n == Len(l.loadHistory)
             avg == SumSeq(l.loadHistory) \div n
             variance == SumSquares(l.loadHistory, avg) \div n
             stdDev == Sqrt(variance)
             zScore == IF stdDev > 0 THEN ((l.currentLoad - avg) * 10) \div stdDev ELSE 0
         IN  IF stdDev > 0
                /\ l.currentLoad > avg
                /\ (l.currentLoad - avg) * (l.currentLoad - avg) > 9 * variance
                /\ acc.warnAlertCount < 2
             THEN [acc EXCEPT
                     !.warnAlertCount = @ + 1,
                     !.alerts = AddAlert(@, << "Z-Score", zScore,
                                             RandomIndex(Random(seed, SiteZDevice(i)),
                                                         CompromisedDevices),
                                             l.target >>,
                                         "WARNING", now)]
             ELSE acc
    ELSE acc

\* mutant: the critical block does not look at the count of the tick
CriticalCheckUnlimited(acc, l, i, mode, seed, now) ==
    IF Css(l) > 4 * Milli /\ mode # "NORMAL"
    THEN [acc EXCEPT
            !.criticalAlertCount = @ + 1,
            !.alerts =
                IF mode = "DDOS"
                THEN AddAlert(@, << "DDoS",
                                    RandomIndex(Random(seed, SiteDDoSDevice(i)),
                                                CompromisedDevices),
                                    l.target, l.currentLoad,
                                    IF RandomAbove(Random(seed, SiteProtocol(i)), 1, 2)
                                    THEN "UDP:53" ELSE "TCP:443" >>,
                              "CRITICAL", now)
                ELSE AddAlert(@, << "Congestion", l.source, l.target,
                                    ToFixed1(Css(l)), l.packetLoss >>,
                              "CRITICAL", now)]
    ELSE acc

\* mutant: the critical block runs in NORMAL mode too
CriticalCheckAnyMode(acc, l, i, mode, seed, now) ==
    IF Css(l) > 4 * Milli /\ acc.criticalAlertCount < 2
    THEN [acc EXCEPT
            !.criticalAlertCount = @ + 1,
            !.alerts =
                IF mode = "DDOS"
                THEN AddAlert(@, << "DDoS",
                                    RandomIndex(Random(seed, SiteDDoSDevice(i)),
                                                CompromisedDevices),
                                    l.target, l.currentLoad,
                                    IF RandomAbove(Random(seed, SiteProtocol(i)), 1, 2)
                                    THEN "UDP:53" ELSE "TCP:443" >>,
                              "CRITICAL", now)
                ELSE AddAlert(@, << "Congestion", l.source, l.target,
                                    ToFixed1(Css(l)), l.packetLoss >>,
                              "CRITICAL", now)]
    ELSE acc

\* the critical congestion / DDoS block
CriticalCheck(acc, l, i, mode, seed, now) ==
    IF Css(l) > 4 * Milli /\ mode # "NORMAL" /\ acc.criticalAlertCount < 2
    THEN [acc EXCEPT
            !.criticalAlertCount = @ + 1,
            !.alerts =
                IF mode = "DDOS"
                THEN AddAlert(@, << "DDoS",
                                    RandomIndex(Random(seed, SiteDDoSDevice(i)),
                                                CompromisedDevices),
                                    l.target, l.currentLoad,
                                    IF RandomAbove(Random(seed, SiteProtocol(i)), 1, 2)
                                    THEN "UDP:53" ELSE "TCP:443" >>,
                              "CRITICAL", now)
                ELSE AddAlert(@, << "Congestion", l.source, l.target,
                                    ToFixed1(Css(l)), l.packetLoss >>,
                              "CRITICAL", now)]
    ELSE acc

\* mutant: the low entropy block runs in every mode
LowEntropyCheckAnyMode(acc, l, i, mode, seed, now) ==
    IF l.entropy * 10 < 3 * Milli
       /\ RandomAbove(Random(seed, SiteLowEntropy(i)), 8, 10)
    THEN [acc EXCEPT
            !.alerts = AddAlert(@, << "Low Entropy", ToFixed2(l.entropy), l.source >>,
                                "WARNING", now)]
    ELSE acc

\* the low entropy block
LowEntropyCheck(acc, l, i, mode, seed, now) ==
    IF l.entropy * 10 < 3 * Milli /\ mode = "DDOS"
       /\ RandomAbove(Random(seed, SiteLowEntropy(i)), 8, 10)
    THEN [acc EXCEPT
            !.alerts = AddAlert(@, << "Low Entropy", ToFixed2(l.entropy), l.source >>,
                                "WARNING", now)]
    ELSE acc

\* what trace records of the visit of a link that no tick has visited
NoVisit == [ updatedLinks |-> 0, zScoreChecked |-> FALSE, appended |-> FALSE ]

\* the three alert blocks of the callback, for the link at position i after
\* its update res; the record of the visit is added to what acc holds
CheckLink(acc, res, i, mode, seed, now) ==
    LET checked == LowEntropyCheck(
                       CriticalCheck(
                           ZScoreCheck(acc, res.link, i, mode, seed, now),
                           res.link, i, mode, seed, now),
                       res.link, i, mode, seed, now)
        visit == [ updatedLinks |-> Len(acc.links) + 1,
                   zScoreChecked |-> ZScoreDue(res.link, mode),
                   appended |-> checked.alerts # acc.alerts ]
    IN  [checked EXCEPT !.links = Append(@, res.link),
                        !.trace = Append(@, res.tr @@ visit)]

\* the callback of "Object.values(this.links).forEach(link => ...)" for the
\* link l at position i: link.update(), then the three alert blocks on the
\* updated link.  acc holds the alert log, the two per-tick alert counts, the
\* links visited before this one and what each visit did: the record of
\* link.update(), the number of links updated when the alert blocks ran,
\* whether the z-score block was entered and whether an alert was appended.
\* (link.update() is evaluated once, as the value res.)
VisitLink(acc, l, i, mode, seed, now) ==
    CHOOSE out \in { CheckLink(acc, res, i, mode, seed, now) :
                       res \in { LinkUpdate(l, now, Random(seed, SiteLinkJitter(i))) } } : TRUE

RECURSIVE ForEachLink(_, _, _, _, _, _)
\* "Object.values(this.links).forEach(link => ...)", for the links at
\* positions i..Len(ls); each visit is evaluated before the next begins
ForEachLink(acc, ls, i, mode, seed, now) ==
    IF i > Len(ls) THEN acc
    ELSE CHOOSE out \in { ForEachLink(visited, ls, i + 1, mode, seed, now) :
                            visited \in { VisitLink(acc, ls[i], i, mode, seed, now) } } : TRUE

\* mutant: the QoS protection alert is raised in NORMAL mode too
QoSAlertAnyMode(as, mode, seed, now) ==
    IF RandomAbove(Random(seed, SiteQoS), 9, 10)
    THEN AddAlert(as, << "QoS" >>, "INFO", now)
    ELSE as

\* the QoS protection alert after the loop
QoSAlert(as, mode, seed, now) ==
    IF mode # "NORMAL" /\ RandomAbove(Random(seed, SiteQoS), 9, 10)
    THEN AddAlert(as, << "QoS" >>, "INFO", now)
    ELSE as

\* update() of a running simulation at time now: generateTraffic(), the loop
\* over the links, the QoS alert.  The result is the links and the alert log
\* after the call and the record of what the call did to each link.
RunningUpdate(ls, g, as, mode, seed, now) ==
    LET start == [ alerts |-> as,
                   criticalAlertCount |-> 0,
                   warnAlertCount |-> 0,
                   links |-> <<>>,
                   trace |-> <<>> ]
    IN  CHOOSE sim \in
            { [ links |-> acc.links,
                trace |-> acc.trace,
                alerts |-> QoSAlert(acc.alerts, mode, seed, now) ] :
              acc \in { ForEachLink(start, offered, 1, mode, seed, now) :
                        offered \in { GenerateTraffic(ls, g, mode, seed) } } } : TRUE

---------------------------------------------------------------------------
(* getState and toDict *)

\* the derived loss percentages of toDict: safeDiv(a, b).toFixed(1), in tenths
SafeDiv(a, b) == IF b = 0 THEN 0 ELSE (a * 2000 + b) \div (2 * b)

\* mutant: WARNING only when the load exceeds the whole capacity
StatusOverCapacity(l) ==
    IF l.packetLoss > 50 THEN "CRITICAL"
    ELSE IF l.currentLoad > l.capacity THEN "WARNING"
    ELSE "NORMAL"

\* mutant: the load is tested before the loss
StatusLoadFirst(l) ==
    IF l.currentLoad * 10 > l.capacity * 8 THEN "WARNING"
    ELSE IF l.packetLoss > 50 THEN "CRITICAL"
    ELSE "NORMAL"

\* the status of a link
Status(l) ==
    IF l.packetLoss > 50 THEN "CRITICAL"
    ELSE IF l.currentLoad * 10 > l.capacity * 8 THEN "WARNING"
    ELSE "NORMAL"

\* Link.toDict(); percentages are in tenths of a percent
ToDict(l) ==
    [ source |-> l.source,
      target |-> l.target,
      capacity |-> l.capacity,
      load |-> l.currentLoad,
      utilization |-> IF l.capacity # 0 THEN SafeDiv(l.currentLoad, l.capacity) ELSE 0,
      latency |-> ToFixed1(l.ewmaRtt),
      jitter |-> ToFixed1(l.jitter),
      packet_loss |-> l.packetLoss,
      entropy |-> ToFixed2(l.entropy),
      status |-> Status(l),
      qos |-> [ gold_drops |-> l.goldDrops,
                silver_drops |-> l.silverDrops,
                bronze_drops |-> l.bronzeDrops,
                gold_served |-> l.goldServed,
                silver_served |-> l.silverServed,
                bronze_served |-> l.bronzeServed,
                buffer_occupancy |-> l.bufferOccupancy,
                choke_active |-> l.chokeActive,
                gold_loss_pct |-> SafeDiv(l.goldDrops, l.goldServed + l.goldDrops),
                bronze_loss_pct |-> SafeDiv(l.bronzeDrops, l.bronzeServed + l.bronzeDrops) ] ]

RECURSIVE SumLoad(_)
\* reduce((sum, l) => sum + l.currentLoad, 0)
SumLoad(ls) == IF ls = <<>> THEN 0 ELSE Head(ls).currentLoad + SumLoad(Tail(ls))

RECURSIVE WeightedEntropy(_)
\* reduce((sum, l) => sum + l.entropy * l.currentLoad, 0)
WeightedEntropy(ls) ==
    IF ls = <<>> THEN 0
    ELSE Head(ls).entropy * Head(ls).currentLoad + WeightedEntropy(Tail(ls))

\* mutant: the plain mean of the link entropies, not weighted by load
AvgEntropyUnweighted(ls) ==
    LET totalLoad == SumLoad(ls)
    IN  IF totalLoad > 0
        THEN SumSeq([i \in DOMAIN ls |-> ls[i].entropy]) \div Len(ls)
        ELSE Milli

\* avgEntropy, in thousandths
AvgEntropy(ls) ==
    LET totalLoad == SumLoad(ls)
    IN  IF totalLoad > 0 THEN WeightedEntropy(ls) \div totalLoad ELSE Milli

\* getState() of a simulation with these links, alert log and mode
GetState(ls, as, mode) ==
    [ nodes |-> Nodes,
      links |-> [i \in DOMAIN ls |-> ToDict(ls[i])],
      alerts |-> LastN(as, SnapshotAlerts),
      global_stats |-> [ total_throughput_mbps |-> SumLoad(ls),
                         avg_system_entropy |-> ToFixed2(AvgEntropy(ls)),
                         active_nodes |-> Len(Nodes) ],
      traffic_mode |-> mode ]

---------------------------------------------------------------------------
(* The simulation and its controls *)

TrafficModes == {"NORMAL", "CONGESTED", "DDOS"}

\* new NetworkSimulation(), at time 0
Init ==
    /\ links = SetupNetworkFloors(EmptyNet, 0).links
    /\ graph = SetupNetworkFloors(EmptyNet, 0).graph
    /\ alerts = <<>>
    /\ running = FALSE
    /\ trafficMode = "NORMAL"
    /\ clock = 0
    /\ trace = [i \in 1..(2 * Len(FloorLinks)) |-> NoTrace @@ NoVisit]
    /\ op = Op("init", "")
    /\ ticks = 0
    /\ resets = 0
    /\ elapses = 0

\* the exploration stops after MaxSteps ticks, resets and clock advances
MoreSteps == ticks + resets + elapses < MaxSteps

\* mutant: the tick does not look at the run flag
StoppedIgnored(isRunning) == FALSE

\* the guard of update() and of generateTraffic()
Stopped(isRunning) == ~isRunning

\* NetworkSimulation.update(), the tick; seed selects the random draws
Update(seed) ==
    /\ op' = Op("tick", "")
    /\ IF Stopped(running)
       THEN UNCHANGED <<links, graph, alerts, running, trafficMode, clock, trace,
                        ticks, resets, elapses>>
       ELSE /\ MoreSteps
            /\ LET sim == RunningUpdate(links, graph, alerts, trafficMode, seed, clock)
               IN  /\ links' = sim.links
                   /\ trace' = sim.trace
                   /\ alerts' = sim.alerts
            /\ ticks' = ticks + 1
            /\ UNCHANGED <<graph, running, trafficMode, clock, resets, elapses>>

\* handleControl('start')
Start ==
    /\ running' = TRUE
    /\ op' = Op("start", "")
    /\ UNCHANGED <<links, graph, alerts, trafficMode, clock, trace, ticks, resets, elapses>>

\* mutant: stopping also discards the offered flows of every link
StopAndClear ==
    /\ running' = FALSE
    /\ links' = [i \in DOMAIN links |-> [links[i] EXCEPT !.activeTraffic = <<>>]]
    /\ op' = Op("stop", "")
    /\ UNCHANGED <<graph, alerts, trafficMode, clock, trace, ticks, resets, elapses>>

\* handleControl('stop')
Stop ==
    /\ running' = FALSE
    /\ op' = Op("stop", "")
    /\ UNCHANGED <<links, graph, alerts, trafficMode, clock, trace, ticks, resets, elapses>>

\* mutant: reset clears the offered flows but keeps the Link objects
ResetSimKeepingLinks(net, as, now) ==
    [ running |-> FALSE,
      trafficMode |-> "NORMAL",
      links |-> [i \in DOMAIN net.links |-> [net.links[i] EXCEPT !.activeTraffic = <<>>]],
      graph |-> net.graph,
      alerts |-> as ]

\* the simulation fields handleControl('reset') assigns
ResetSim(net, as, now) ==
    LET setup == SetupNetworkFloors(net, now)
    IN  [ running |-> FALSE,
          trafficMode |-> "NORMAL",
          links |-> [i \in DOMAIN setup.links |-> [setup.links[i] EXCEPT !.activeTraffic = <<>>]],
          graph |-> setup.graph,
          alerts |-> as ]

\* handleControl('reset')
Reset ==
    /\ MoreSteps
    /\ LET sim == ResetSim([links |-> links, graph |-> graph], alerts, clock)
       IN  /\ running' = sim.running
           /\ trafficMode' = sim.trafficMode
           /\ links' = sim.links
           /\ graph' = sim.graph
           /\ alerts' = sim.alerts
           /\ trace' = [i \in DOMAIN sim.links |-> NoTrace @@ NoVisit]
    /\ op' = Op("reset", "")
    /\ resets' = resets + 1
    /\ UNCHANGED <<clock, ticks, elapses>>

\* mutant: handleMode without the auto-start
NoAutoStart(isRunning) == isRunning

\* the run flag after handleMode: "if (!running) running = true"
AutoStart(isRunning) == TRUE

\* handleMode(mode)
HandleMode(mode) ==
    /\ trafficMode' = mode
    /\ running' = AutoStart(running)
    /\ op' = Op("mode", mode)
    /\ UNCHANGED <<links, graph, alerts, clock, trace, ticks, resets, elapses>>

\* d ms pass
Elapse(d) ==
    /\ MoreSteps
    /\ clock' = clock + d
    /\ elapses' = elapses + 1
    /\ op' = Op("elapse", "")
    /\ UNCHANGED <<links, graph, alerts, running, trafficMode, trace, ticks, resets>>

\* mutant: getState takes the alerts it exposes out of the log
\* (this.alerts.splice(-10) for this.alerts.slice(-10))
GetSnapshotSplicing ==
    /\ alerts' = SubSeq(alerts, 1, Len(alerts) - Len(LastN(alerts, SnapshotAlerts)))
    /\ op' = Op("snapshot", "")
    /\ UNCHANGED <<links, graph, running, trafficMode, clock, trace, ticks, resets, elapses>>

\* a getState() call of the application loop: it assigns no field
GetSnapshot ==
    /\ op' = Op("snapshot", "")
    /\ UNCHANGED <<links, graph, alerts, running, trafficMode, clock, trace, ticks, resets, elapses>>

Next ==
    \/ \E seed \in Seeds : Update(seed)
    \/ Start
    \/ Stop
    \/ Reset
    \/ \E mode \in TrafficModes : HandleMode(mode)
    \/ \E d \in Elapses : Elapse(d)

Spec == Init /\ [][Next]_vars

\* the simulation polled by the application loop: ticks, mode changes and
\* resets with getState() calls in between
SnapshotNext ==
    \/ \E seed \in Seeds : Update(seed)
    \/ Reset
    \/ \E mode \in TrafficModes : HandleMode(mode)
    \/ \E d \in Elapses : Elapse(d)
    \/ GetSnapshot

SnapshotSpec == Init /\ [][SnapshotNext]_vars

---------------------------------------------------------------------------
(* A long run of the simulation: ticks half a second apart in NORMAL mode, *)
(* with one change to another mode at any point of the run                 *)

\* running ticks of the long run
MaxTicks == 11

AnomalyModes == {"CONGESTED", "DDOS"}
AnomalyElapses == {500}
AnomalySeeds == {1}

\* d ms pass and the application loop calls update() on the running simulation
TimedUpdate(seed, d) ==
    /\ running
    /\ ticks < MaxTicks
    /\ clock' = clock + d
    /\ LET sim == RunningUpdate(links, graph, alerts, trafficMode, seed, clock + d)
       IN  /\ links' = sim.links
           /\ trace' = sim.trace
           /\ alerts' = sim.alerts
    /\ op' = Op("tick", "")
    /\ ticks' = ticks + 1
    /\ UNCHANGED <<graph, running, trafficMode, resets, elapses>>

AnomalyNext ==
    \/ ~running /\ Start
    \/ \E mode \in AnomalyModes : trafficMode = "NORMAL" /\ HandleMode(mode)
    \/ \E seed \in AnomalySeeds, d \in AnomalyElapses : TimedUpdate(seed, d)

AnomalySpec == Init /\ [][AnomalyNext]_vars

---------------------------------------------------------------------------
(* Ticks of the simulation in changing modes, at the same timestamp or half *)
(* a second apart, with a random source that also draws the QoS notice     *)

QuietElapses == {0, 500}
\* the draw of the QoS notice of seed 21 is 15/16, above 0.9
QuietSeeds == {21}

\* d ms pass and the application loop calls update() on the running simulation
QuietTick(seed, d) ==
    /\ running
    /\ ticks < MaxSteps
    /\ clock' = clock + d
    /\ LET sim == RunningUpdate(links, graph, alerts, trafficMode, seed, clock + d)
       IN  /\ links' = sim.links
           /\ trace' = sim.trace
           /\ alerts' = sim.alerts
    /\ op' = Op("tick", "")
    /\ ticks' = ticks + 1
    /\ UNCHANGED <<graph, running, trafficMode, resets, elapses>>

QuietNext ==
    \/ \E mode \in TrafficModes : HandleMode(mode)
    \/ \E seed \in QuietSeeds, d \in QuietElapses : QuietTick(seed, d)

QuietSpec == Init /\ [][QuietNext]_vars

---------------------------------------------------------------------------
(* addAlert driven directly: trace holds every addAlert call made, ticks *)
(* counts the calls made after the initial state                         *)

AlertMessages == {"a", "b"}
AlertLevels == {"WARNING", "CRITICAL"}
AlertElapses == {0, 500}
\* the numbers of alerts already logged in the initial states
AlertPrefills == {0, 8, 48}

\* the call addAlert(msg, level) made at time now
AlertCall(msg, level, now) == [time |-> TimeStr(now), msg |-> msg, level |-> level]

\* n calls with alternating messages, all at time 0
PrefillCalls(n) == [k \in 1..n |-> AlertCall(IF k % 2 = 1 THEN "a" ELSE "b", "WARNING", 0)]

\* the log after these calls: no call repeats the one before it and there
\* are fewer than AlertLimit, so addAlert has pushed each of them
PrefillLog(n) == PrefillCalls(n)

AlertInit ==
    /\ links = SetupNetworkFloors(EmptyNet, 0).links
    /\ graph = SetupNetworkFloors(EmptyNet, 0).graph
    /\ \E n \in AlertPrefills :
          /\ trace = PrefillCalls(n)
          /\ alerts = PrefillLog(n)
    /\ running = FALSE
    /\ trafficMode = "NORMAL"
    /\ clock = 0
    /\ op = Op("init", "")
    /\ ticks = 0
    /\ resets = 0
    /\ elapses = 0

\* d ms pass and addAlert(msg, level) is called
AlertAdd(msg, level, d) ==
    /\ ticks < MaxAlerts
    /\ clock' = clock + d
    /\ alerts' = AddAlert(alerts, msg, level, clock + d)
    /\ trace' = Append(trace, AlertCall(msg, level, clock + d))
    /\ op' = Op("alert", msg)
    /\ ticks' = ticks + 1
    /\ UNCHANGED <<links, graph, running, trafficMode, resets, elapses>>

AlertNext ==
    \E msg \in AlertMessages, level \in AlertLevels, d \in AlertElapses : AlertAdd(msg, level, d)

AlertSpec == AlertInit /\ [][AlertNext]_vars

---------------------------------------------------------------------------
(* A single Link driven directly: offered flows, then update() *)

LinkCapacities == {1000, 4000}
LinkElapses == {0, 50}
LinkRandoms == {RandDen - 1}

\* the flows a tick may offer: with capacity 1000, DICOM + HTTP is exactly at
\* the choke threshold, VOIP + DICOM and VOIP + HTTP are above it, and two
\* VOIP flows exceed the capacity
\* with capacity 4000, HTTP alone is exactly at the low-load threshold of the
\* entropy (occupancy 0.1), DICOM alone is below it and VOIP alone above it
LinkFlows == { Flow(VOIP, 700), Flow(DICOM, 300), Flow(HTTP, 400) }

\* the offered flow lists: every list of at most MaxFlows flows
LinkFlowLists == UNION { [1..n -> LinkFlows] : n \in 0..MaxFlows }

LinkInit ==
    /\ \E capacity \in LinkCapacities : links = << Link("A", "B", capacity, 1, 0) >>
    /\ graph = [n \in NodeSet |-> <<>>]
    /\ alerts = <<>>
    /\ running = FALSE
    /\ trafficMode = "NORMAL"
    /\ clock = 0
    /\ trace = << NoTrace >>
    /\ op = Op("init", "")
    /\ ticks = 0
    /\ resets = 0
    /\ elapses = 0

\* the flows are offered, d ms pass, and the link is updated
LinkTick(flows, d, r) ==
    /\ ticks < MaxLinkUpdates
    /\ LET offered == [links[1] EXCEPT !.activeTraffic = flows]
           res == LinkUpdate(offered, clock + d, r)
       IN  /\ links' = << res.link >>
           /\ trace' = << res.tr >>
    /\ clock' = clock + d
    /\ op' = Op("tick", "")
    /\ ticks' = ticks + 1
    /\ UNCHANGED <<graph, alerts, running, trafficMode, resets, elapses>>

LinkNext == \E flows \in LinkFlowLists, d \in LinkElapses, r \in LinkRandoms : LinkTick(flows, d, r)

LinkSpec == LinkInit /\ [][LinkNext]_vars

---------------------------------------------------------------------------
(* A single Link offered a GOLD flow of 500, a BRONZE flow of 700 or a *)
(* flood of 5000, one second between updates                           *)

ScenarioCapacities == {100, 1000}
ScenarioElapses == {1000}
ScenarioFlows == { Flow(VOIP, 500), Flow(HTTP, 700), Flow(ATTACK, 5000) }
ScenarioFlowLists == UNION { [1..n -> ScenarioFlows] : n \in 0..MaxFlows }

ScenarioInit ==
    /\ \E capacity \in ScenarioCapacities : links = << Link("A", "B", capacity, 1, 0) >>
    /\ graph = [n \in NodeSet |-> <<>>]
    /\ alerts = <<>>
    /\ running = FALSE
    /\ trafficMode = "NORMAL"
    /\ clock = 0
    /\ trace = << NoTrace >>
    /\ op = Op("init", "")
    /\ ticks = 0
    /\ resets = 0
    /\ elapses = 0

ScenarioNext ==
    \E flows \in ScenarioFlowLists, d \in ScenarioElapses, r \in LinkRandoms :
        LinkTick(flows, d, r)

ScenarioSpec == ScenarioInit /\ [][ScenarioNext]_vars

---------------------------------------------------------------------------
(* A single Link offered flows of every priority and of a traffic class *)
(* that has no priority mapping                                         *)

\* a traffic class that is not a key of TRAFFIC_PRIORITY_MAP
Unmapped == "VIDEO"

OrderCapacities == {1000}
OrderElapses == {1000}
OrderFlows == { Flow(VOIP, 100), Flow(DICOM, 200), Flow(HTTP, 300), Flow(Unmapped, 400) }
\* the offered flow lists: at most MaxFlows of the flows, each at most once,
\* in every order
OrderFlowLists ==
    UNION { { fs \in [1..n -> OrderFlows] : \A j, k \in 1..n : j # k => fs[j] # fs[k] }
            : n \in 0..MaxFlows }

OrderInit ==
    /\ \E capacity \in OrderCapacities : links = << Link("A", "B", capacity, 1, 0) >>
    /\ graph = [n \in NodeSet |-> <<>>]
    /\ alerts = <<>>
    /\ running = FALSE
    /\ trafficMode = "NORMAL"
    /\ clock = 0
    /\ trace = << NoTrace >>
    /\ op = Op("init", "")
    /\ ticks = 0
    /\ resets = 0
    /\ elapses = 0

OrderNext ==
    \E flows \in OrderFlowLists, d \in OrderElapses, r \in LinkRandoms :
        LinkTick(flows, d, r)

OrderSpec == OrderInit /\ [][OrderNext]_vars

---------------------------------------------------------------------------
(* A single Link, of capacity 0 or 1000, offered loads below, at and above *)
(* the choke threshold and above the capacity                              *)

OccupancyCapacities == {0, 1000}
OccupancyElapses == {0, 50}
OccupancyFlows == { Flow(VOIP, 700), Flow(HTTP, 1), Flow(DICOM, 500) }
\* the offered flow lists: at most MaxFlows of the flows, each at most once,
\* in every order
OccupancyFlowLists ==
    UNION { { fs \in [1..n -> OccupancyFlows] : \A j, k \in 1..n : j # k => fs[j] # fs[k] }
            : n \in 0..MaxFlows }

OccupancyInit ==
    /\ \E capacity \in OccupancyCapacities : links = << Link("A", "B", capacity, 1, 0) >>
    /\ graph = [n \in NodeSet |-> <<>>]
    /\ alerts = <<>>
    /\ running = FALSE
    /\ trafficMode = "NORMAL"
    /\ clock = 0
    /\ trace = << NoTrace >>
    /\ op = Op("init", "")
    /\ ticks = 0
    /\ resets = 0
    /\ elapses = 0

OccupancyNext ==
    \E flows \in OccupancyFlowLists, d \in OccupancyElapses, r \in LinkRandoms :
        LinkTick(flows, d, r)

OccupancySpec == OccupancyInit /\ [][OccupancyNext]_vars

---------------------------------------------------------------------------
(* A single Link updated when the clock has advanced, has not moved, or *)
(* has been set back since its last update                              *)

RepeatCapacities == {0, 1000}
RepeatElapses == {-50, 0, 50}
RepeatFlowLists ==
    { <<>>, << Flow(HTTP, 400) >>, << Flow(VOIP, 700), Flow(HTTP, 400) >>,
      << Flow(VOIP, 700), Flow(VOIP, 700) >> }

RepeatInit ==
    /\ \E capacity \in RepeatCapacities : links = << Link("A", "B", capacity, 1, 0) >>
    /\ graph = [n \in NodeSet |-> <<>>]
    /\ alerts = <<>>
    /\ running = FALSE
    /\ trafficMode = "NORMAL"
    /\ clock = 0
    /\ trace = << NoTrace >>
    /\ op = Op("init", "")
    /\ ticks = 0
    /\ resets = 0
    /\ elapses = 0

RepeatNext ==
    \E flows \in RepeatFlowLists, d \in RepeatElapses, r \in LinkRandoms :
        LinkTick(flows, d, r)

RepeatSpec == RepeatInit /\ [][RepeatNext]_vars

---------------------------------------------------------------------------
(* A single Link updated at different cadences: 1 ms, the 50 ms of the *)
(* 20 Hz loop, and ten minutes after the update before                 *)

CadenceCapacities == {1000}
CadenceElapses == {1, 50, 600000}
CadenceFlows == { Flow(VOIP, 700), Flow(HTTP, 400) }
CadenceFlowLists == UNION { [1..n -> CadenceFlows] : n \in 0..MaxFlows }

CadenceInit ==
    /\ \E capacity \in CadenceCapacities : links = << Link("A", "B", capacity, 1, 0) >>
    /\ graph = [n \in NodeSet |-> <<>>]
    /\ alerts = <<>>
    /\ running = FALSE
    /\ trafficMode = "NORMAL"
    /\ clock = 0
    /\ trace = << NoTrace >>
    /\ op = Op("init", "")
    /\ ticks = 0
    /\ resets = 0
    /\ elapses = 0

CadenceNext ==
    \E flows \in CadenceFlowLists, d \in CadenceElapses, r \in LinkRandoms :
        LinkTick(flows, d, r)

CadenceSpec == CadenceInit /\ [][CadenceNext]_vars

---------------------------------------------------------------------------
(* A single Link with a long past: trace holds the offered load of every *)
(* update with dt > 0 the link has had, ticks counts the updates made    *)
(* after the initial state                                               *)

\* updates made on a link with a past
MaxHistoryUpdates == 3

HistoryCapacities == {4000}
HistoryElapses == {0, 50}
\* the numbers of updates a link has had in the initial states
HistoryPrefills == {0, 48}
HistoryFlowLists == { <<>>, << Flow(HTTP, 400) >>, << Flow(VOIP, 700), Flow(HTTP, 400) >> }

\* the offered loads of the first n updates: the k-th, made at time 50 * k,
\* is offered one DICOM flow of rate k
PrefillLoads(n) == [k \in 1..n |-> k]

\* the link after these n updates, each with a jitter draw of 0: every flow
\* fits and is served, the occupancy stays below 0.1, the latency stays at
\* the base latency
PrefilledLink(n, capacity) ==
    IF n = 0 THEN Link("A", "B", capacity, 1, 0)
    ELSE [ Link("A", "B", capacity, 1, 0) EXCEPT
             !.lastUpdateTime = 50 * n,
             !.activeTraffic = << Flow(DICOM, n) >>,
             !.silverServed = n,
             !.bufferOccupancy = BufferOccupancy(n, capacity),
             !.currentLoad = n,
             !.loadHistory = PrefillLoads(n) ]

HistoryInit ==
    /\ \E n \in HistoryPrefills, capacity \in HistoryCapacities :
          /\ links = << PrefilledLink(n, capacity) >>
          /\ trace = PrefillLoads(n)
          /\ clock = 50 * n
    /\ graph = [n \in NodeSet |-> <<>>]
    /\ alerts = <<>>
    /\ running = FALSE
    /\ trafficMode = "NORMAL"
    /\ op = Op("init", "")
    /\ ticks = 0
    /\ resets = 0
    /\ elapses = 0

\* the flows are offered, d ms pass, and the link is updated
HistoryTick(flows, d, r) ==
    /\ ticks < MaxHistoryUpdates
    /\ \E res \in { LinkUpdate([links[1] EXCEPT !.activeTraffic = flows], clock + d, r) } :
          /\ links' = << res.link >>
          /\ trace' = IF res.tr.ran THEN Append(trace, res.tr.totalLoad) ELSE trace
    /\ clock' = clock + d
    /\ op' = Op("tick", "")
    /\ ticks' = ticks + 1
    /\ UNCHANGED <<graph, alerts, running, trafficMode, resets, elapses>>

HistoryNext ==
    \E flows \in HistoryFlowLists, d \in HistoryElapses, r \in LinkRandoms :
        HistoryTick(flows, d, r)

HistorySpec == HistoryInit /\ [][HistoryNext]_vars

---------------------------------------------------------------------------
(* shortestPath called on adjacency maps built by addLink: trace holds the *)
(* last call and its result                                                *)

\* the node pairs addLink may be called with, in call order; the last repeats
\* the first, as a second setupNetworkFloors() repeats every pair
PathEdges ==
    << << "ICU-A", "ICU-B" >>, << "ICU-B", "OT-1" >>, << "OT-1", "Lab" >>,
       << "Lab", "Wards" >>, << "Wards", "ICU-A" >>, << "ICU-A", "OT-1" >>,
       << "ICU-B", "Lab" >>, << "OT-1", "Wards" >>, << "Lab", "ICU-A" >>,
       << "ICU-A", "ICU-B" >> >>

\* the nodes shortestPath is called with: those of PathEdges and one more
PathNodes == {"ICU-A", "ICU-B", "OT-1", "Lab", "Wards", "Admin"}

RECURSIVE AddEdges(_, _, _)
\* addLink for the pairs of PathEdges at the positions k.. that are in chosen
AddEdges(net, chosen, k) ==
    IF k > Len(PathEdges) THEN net
    ELSE AddEdges(IF k \in chosen
                  THEN AddLink(net, PathEdges[k][1], PathEdges[k][2], 1000, 1, 0)
                  ELSE net,
                  chosen, k + 1)

\* the maps shortestPath runs on: any choice of the pairs, and the hospital
\* floors
PathNets ==
    { AddEdges(EmptyNet, chosen, 1) : chosen \in SUBSET DOMAIN PathEdges }
    \cup { SetupNetworkFloors(EmptyNet, 0) }

PathInit ==
    /\ \E net \in PathNets : links = net.links /\ graph = net.graph
    /\ alerts = <<>>
    /\ running = FALSE
    /\ trafficMode = "NORMAL"
    /\ clock = 0
    /\ trace = [start |-> "", end |-> "", path |-> <<>>]
    /\ op = Op("init", "")
    /\ ticks = 0
    /\ resets = 0
    /\ elapses = 0

\* shortestPath(start, end)
ShortestPathCall(start, end) ==
    /\ trace' = [start |-> start, end |-> end, path |-> ShortestPath(graph, start, end)]
    /\ op' = Op("path", "")
    /\ UNCHANGED <<links, graph, alerts, running, trafficMode, clock, ticks, resets, elapses>>

PathNext == \E start \in PathNodes, end \in PathNodes : ShortestPathCall(start, end)

PathSpec == PathInit /\ [][PathNext]_vars

---------------------------------------------------------------------------
(* addLink and setupNetworkFloors called on the maps of a new simulation: *)
(* trace holds the last addLink call, ticks counts the calls made         *)

\* calls made on one pair of maps
MaxTopologyCalls == 3

TopologyNodes == {"Server Room", "ICU-A", "Wards"}
TopologyCapacities == {500, 1000}
TopologyLatencies == {1, 3}

\* what trace holds before any addLink call
NoCall == [u |-> "", v |-> "", cap |-> 0, lat |-> 0]

\* the constructor before it calls setupNetworkFloors(): both maps are empty
TopologyInit ==
    /\ links = EmptyNet.links
    /\ graph = EmptyNet.graph
    /\ alerts = <<>>
    /\ running = FALSE
    /\ trafficMode = "NORMAL"
    /\ clock = 0
    /\ trace = NoCall
    /\ op = Op("init", "")
    /\ ticks = 0
    /\ resets = 0
    /\ elapses = 0

\* addLink(u, v, cap, lat)
AddLinkCall(u, v, cap, lat) ==
    /\ ticks < MaxTopologyCalls
    /\ LET net == AddLink([links |-> links, graph |-> graph], u, v, cap, lat, clock)
       IN  links' = net.links /\ graph' = net.graph
    /\ trace' = [u |-> u, v |-> v, cap |-> cap, lat |-> lat]
    /\ op' = Op("addLink", "")
    /\ ticks' = ticks + 1
    /\ UNCHANGED <<alerts, running, trafficMode, clock, resets, elapses>>

\* setupNetworkFloors()
SetupNetworkFloorsCall ==
    /\ ticks < MaxTopologyCalls
    /\ LET net == SetupNetworkFloors([links |-> links, graph |-> graph], clock)
       IN  links' = net.links /\ graph' = net.graph
    /\ trace' = NoCall
    /\ op' = Op("setup", "")
    /\ ticks' = ticks + 1
    /\ UNCHANGED <<alerts, running, trafficMode, clock, resets, elapses>>

TopologyNext ==
    \/ \E u \in TopologyNodes : \E v \in TopologyNodes \ {u} :
          \E cap \in TopologyCapacities, lat \in TopologyLatencies : AddLinkCall(u, v, cap, lat)
    \/ SetupNetworkFloorsCall

TopologySpec == TopologyInit /\ [][TopologyNext]_vars

---------------------------------------------------------------------------
(* Properties *)

\* the number of offered flows of a priority
Offered(activeTraffic, priority) ==
    Len(SelectSeq(activeTraffic, LAMBDA t : TRAFFIC_PRIORITY_MAP(t.type) = priority))

\* the logged decisions on flows of a priority with one of the outcomes
Decided(log, priority, outcomes) ==
    SelectSeq(log, LAMBDA e : e.priority = priority /\ e.outcome \in outcomes)

\* the flow of a log entry fitted the capacity remaining at its turn
Fits(e, dt) == e.amount * dt <= e.remaining

\* this step is a tick in which update() of link i ran with dt > 0
Updated(i) == ticks' = ticks + 1 /\ i \in DOMAIN trace' /\ trace'[i].ran

\* C1: in every Link.update with dt > 0 in which offered load / capacity > 0.7,
\* no SILVER or BRONZE flow is admitted: each increments its priority's drop
\* counter, none increments silverServed or bronzeServed, and servedLoad is
\* made of GOLD flows only.
C1_ChokeAdmitsOnlyGold ==
    [][\A i \in DOMAIN links :
         LET l == links'[i]
             log == trace'[i].log
         IN  (Updated(i) /\ TotalLoad(l.activeTraffic) * 10 > 7 * l.capacity)
             => /\ l.silverServed = links[i].silverServed
                /\ l.silverDrops = links[i].silverDrops + Offered(l.activeTraffic, SILVER)
                /\ l.bronzeServed <= links[i].bronzeServed
                /\ l.bronzeDrops >= links[i].bronzeDrops + Offered(l.activeTraffic, BRONZE)
                /\ \A k \in DOMAIN log :
                      log[k].priority # GOLD => log[k].outcome \notin {"served", "preempted"}
                /\ trace'[i].servedLoad
                     = TotalLoad(Decided(log, GOLD, {"served", "preempted"}))]_vars

\* C1 witness: a choked update dropped a SILVER flow that fitted the remaining capacity
C1_Witness ==
    \E i \in DOMAIN trace :
        /\ trace[i].ran
        /\ trace[i].chokeActive
        /\ \E k \in DOMAIN trace[i].log :
              LET e == trace[i].log[k]
              IN  e.priority = SILVER /\ Fits(e, trace[i].dt) /\ e.outcome = "choked"
        /\ links[i].silverDrops > 0

\* C2: goldDrops is incremented for a GOLD flow only when its demand rate*dt
\* exceeds the capacity remaining at its turn; a GOLD flow whose demand fits
\* is admitted whether or not choke is active.
C2_GoldNeverChokeDropped ==
    [][\A i \in DOMAIN links :
         LET l == links'[i]
             log == trace'[i].log
             dt == trace'[i].dt
             gold == Decided(log, GOLD, {"served", "preempted", "choked", "dropped"})
         IN  Updated(i)
             => /\ Len(gold) = Offered(l.activeTraffic, GOLD)
                /\ \A k \in DOMAIN gold :
                      /\ Fits(gold[k], dt) => gold[k].outcome = "served"
                      /\ gold[k].outcome \in {"choked", "dropped"} => ~Fits(gold[k], dt)
                /\ l.goldDrops = links[i].goldDrops
                                 + Len(Decided(log, GOLD, {"choked", "dropped"}))
                /\ l.goldServed = links[i].goldServed
                                  + Len(Decided(log, GOLD, {"served", "preempted"}))]_vars

\* C2 witness: in one choked update a GOLD flow that fitted was admitted and a
\* GOLD flow that did not fit was dropped
C2_Witness ==
    \E i \in DOMAIN trace :
        /\ trace[i].ran
        /\ trace[i].chokeActive
        /\ \E k \in DOMAIN trace[i].log :
              LET e == trace[i].log[k]
              IN  e.priority = GOLD /\ Fits(e, trace[i].dt) /\ e.outcome = "served"
        /\ \E k \in DOMAIN trace[i].log :
              LET e == trace[i].log[k]
              IN  e.priority = GOLD /\ ~Fits(e, trace[i].dt) /\ e.outcome = "dropped"
        /\ links[i].goldDrops > 0

\* served(P) + dropped(P) of a link
GoldTotal(l) == l.goldServed + l.goldDrops
SilverTotal(l) == l.silverServed + l.silverDrops
BronzeTotal(l) == l.bronzeServed + l.bronzeDrops

\* C3: for every link and priority, served + dropped never decreases from one
\* state of a run to the next unless a reset comes in between, ticks with GOLD
\* preemption included.
C3_ServedPlusDroppedMonotone ==
    [][resets' = resets
       => \A i \in DOMAIN links :
             /\ GoldTotal(links'[i]) >= GoldTotal(links[i])
             /\ SilverTotal(links'[i]) >= SilverTotal(links[i])
             /\ BronzeTotal(links'[i]) >= BronzeTotal(links[i])]_vars

\* C3 witness: the last update of a link preempted a bronze flow for a GOLD one
C3_Witness ==
    \E i \in DOMAIN trace :
        /\ trace[i].ran
        /\ Len(Decided(trace[i].log, GOLD, {"preempted"})) > 0

\* C4: each of the six counters of a link is non-decreasing from one tick to
\* the next for the lifetime of the link.
C4_CountersMonotone ==
    [][resets' = resets
       => \A i \in DOMAIN links :
             /\ links'[i].goldServed >= links[i].goldServed
             /\ links'[i].silverServed >= links[i].silverServed
             /\ links'[i].bronzeServed >= links[i].bronzeServed
             /\ links'[i].goldDrops >= links[i].goldDrops
             /\ links'[i].silverDrops >= links[i].silverDrops
             /\ links'[i].bronzeDrops >= links[i].bronzeDrops]_vars

\* the snapshot getState() returns in the current state
Snapshot == GetState(links, alerts, trafficMode)

\* a link has the state its constructor gives it (lastUpdateTime apart)
Fresh(l) ==
    /\ l.goldServed = 0 /\ l.silverServed = 0 /\ l.bronzeServed = 0
    /\ l.goldDrops = 0 /\ l.silverDrops = 0 /\ l.bronzeDrops = 0
    /\ l.currentLoad = 0
    /\ l.packetLoss = 0
    /\ l.loadHistory = <<>>
    /\ l.entropy = Milli

\* C5: after reset the controller is STOPPED, the mode is NORMAL and every
\* link has its six counters 0, currentLoad 0, packetLoss 0, an empty load
\* history and entropy 1.
C5_ResetRestoresLinks ==
    op.name = "reset"
    => /\ ~running
       /\ trafficMode = "NORMAL"
       /\ Len(links) = 2 * Len(FloorLinks)
       /\ \A i \in DOMAIN links : Fresh(links[i]) /\ links[i].activeTraffic = <<>>

\* C5 witness: a reset issued after a tick that logged alerts, which only a
\* tick that updated links with loss does
C5_Witness ==
    /\ op.name = "reset"
    /\ ticks > 0
    /\ alerts # <<>>

\* C6: after reset the alert log is empty, and so is the alert list of the
\* snapshot taken then.
C6_ResetClearsAlerts ==
    op.name = "reset" => alerts = <<>> /\ Snapshot.alerts = <<>>

\* the adjacency map and the link keys of a freshly constructed simulation
ConstructedNet == SetupNetworkFloors(EmptyNet, 0)

\* the (source, target) keys of a link map
Keys(ls) == { << ls[i].source, ls[i].target >> : i \in DOMAIN ls }

\* C7: after any number of resets the adjacency map equals the one built at
\* construction and the link map holds the same directed keys.
C7_ResetRestoresTopology ==
    op.name = "reset"
    => /\ graph = ConstructedNet.graph
       /\ Keys(links) = Keys(ConstructedNet.links)

\* C8: tick() is a no-op when the controller is STOPPED: no link field, no
\* alert, neither the mode nor the run flag changes, and the snapshot after
\* it equals the snapshot before it.
C8_StoppedTickNoOp ==
    [][(op'.name = "tick" /\ ~running)
       => /\ UNCHANGED <<links, graph, alerts, running, trafficMode>>
          /\ Snapshot' = Snapshot]_vars

\* C8 witness: a tick of a stopped simulation whose links hold the flows and
\* counters of an earlier running tick
C8_Witness ==
    /\ op.name = "tick"
    /\ ~running
    /\ ticks > 0
    /\ \E i \in DOMAIN links :
          links[i].activeTraffic # <<>> /\ links[i].goldServed > 0

\* C9: start and stop change only the run flag.
C9_StartStopFrame ==
    [][(op'.name \in {"start", "stop"})
       => /\ UNCHANGED <<links, graph, alerts, trafficMode>>
          /\ running' = (op'.name = "start")]_vars

\* C9 witness: a simulation stopped after a tick that served flows and logged alerts
C9_Witness ==
    /\ op.name = "stop"
    /\ ~running
    /\ alerts # <<>>
    /\ \E i \in DOMAIN links :
          links[i].activeTraffic # <<>> /\ links[i].goldServed > 0

\* C10: setMode(m) sets the traffic mode to m and leaves the controller
\* RUNNING, whatever it was before; links and alert log are not changed.
C10_SetModeAutoStarts ==
    [][(op'.name = "mode")
       => /\ trafficMode' = op'.arg
          /\ running'
          /\ UNCHANGED <<links, graph, alerts>>]_vars

\* C10 witness: the mode was set back to NORMAL on a simulation that has run
\* a tick in another mode, and it is running
C10_Witness ==
    /\ op = Op("mode", "NORMAL")
    /\ running
    /\ ticks > 0
    /\ alerts # <<>>


\* C11: getState is read-only and idempotent: the call changes no field of
\* the simulation, so a second call with nothing in between returns the same
\* value as the first.
C11_GetStateReadOnly ==
    [][(op'.name = "snapshot")
       => /\ UNCHANGED <<links, graph, alerts, running, trafficMode>>
          /\ Snapshot' = Snapshot]_vars

\* C11 witness: a snapshot taken of a running simulation whose log holds more
\* alerts than a snapshot exposes
C11_Witness ==
    /\ op.name = "snapshot"
    /\ running
    /\ Len(alerts) > SnapshotAlerts
    /\ Len(Snapshot.alerts) = SnapshotAlerts
    /\ \E i \in DOMAIN links : links[i].currentLoad > 0


\* two alerts the dedup of addAlert takes for the same
SameAlert(a, b) == a.msg = b.msg /\ a.time = b.time

RECURSIVE Dedup(_, _)
\* the calls that are not a repetition of the call kept before them, after kept
Dedup(kept, calls) ==
    IF calls = <<>> THEN kept
    ELSE IF kept # <<>> /\ SameAlert(kept[Len(kept)], Head(calls))
         THEN Dedup(kept, Tail(calls))
         ELSE Dedup(Append(kept, Head(calls)), Tail(calls))

\* s ends with the sequence t
EndsWith(s, t) ==
    /\ Len(t) <= Len(s)
    /\ \A k \in DOMAIN t : t[k] = s[Len(s) - Len(t) + k]

\* C12: the alert log holds at most 50 entries, the most recently appended
\* ones in append order, and a snapshot exposes exactly the last
\* min(10, log length) entries of the log in the same order.
C12_LogKeepsNewest ==
    LET appended == Dedup(<<>>, trace)
    IN  /\ Len(alerts) <= 50
        /\ Len(alerts) = Min(50, Len(appended))
        /\ EndsWith(appended, alerts)
        /\ Len(Snapshot.alerts) = Min(10, Len(alerts))
        /\ EndsWith(alerts, Snapshot.alerts)

\* C12 witness: more than 50 alerts were appended, and the log holds 50
C12_Witness ==
    /\ op.name = "alert"
    /\ Len(Dedup(<<>>, trace)) > 50
    /\ Len(alerts) = 50
    /\ Len(Snapshot.alerts) = 10

\* no two adjacent entries of the log have the same message and timestamp
NoAdjacentRepeat(as) ==
    \A k \in 1..(Len(as) - 1) : ~SameAlert(as[k], as[k + 1])

\* C13: addAlert appends nothing when message and timestamp equal those of
\* the last alert of the log, and appends the alert in every other case; the
\* log never holds two adjacent entries with the same message and timestamp.
C13_Dedup ==
    [][(op'.name = "alert")
       => LET call == trace'[Len(trace')]
              repeated == alerts # <<>> /\ SameAlert(alerts[Len(alerts)], call)
          IN  /\ repeated => alerts' = alerts
              /\ ~repeated => /\ alerts'[Len(alerts')] = call
                               /\ EndsWith(Append(alerts, call), alerts')
                               /\ Len(alerts') = Min(50, Len(alerts) + 1)
              /\ NoAdjacentRepeat(alerts) /\ NoAdjacentRepeat(alerts')]_vars

\* C13 witness: the last call repeated the last alert with another level and
\* was suppressed, and an earlier one with the same message and a later
\* timestamp was appended
C13_Witness ==
    /\ op.name = "alert"
    /\ Len(trace) > Len(Dedup(<<>>, trace))
    /\ LET call == trace[Len(trace)]
           last == alerts[Len(alerts)]
       IN  /\ SameAlert(last, call)
           /\ last.level # call.level
           /\ Len(alerts) > 1
           /\ alerts[Len(alerts) - 1].msg = last.msg
           /\ alerts[Len(alerts) - 1].time < last.time


\* the alerts a step appended to the log, when the log was not trimmed
Raised(old, new) == SubSeq(new, Len(old) + 1, Len(new))

\* the alerts of a level
OfLevel(as, level) == SelectSeq(as, LAMBDA a : a.level = level)

\* the links whose congestion severity score is above 4.0
Severe(ls) == { i \in DOMAIN ls : Css(ls[i]) > 4 * Milli }

\* C14: a tick raises at most 2 CRITICAL alerts, however many links have a
\* congestion severity score above 4.0.
C14_CriticalRateLimit ==
    [][(op'.name = "tick" /\ Len(alerts') < AlertLimit)
       => Len(OfLevel(Raised(alerts, alerts'), "CRITICAL")) <= 2]_vars

\* C14 witness: after the only tick so far more than 2 links have a score
\* above 4.0 and the log holds 2 CRITICAL alerts
C14_Witness ==
    /\ op.name = "tick"
    /\ ticks = 1
    /\ trafficMode # "NORMAL"
    /\ Cardinality(Severe(links)) > 2
    /\ Len(OfLevel(alerts, "CRITICAL")) = 2

\* C15: a tick raises at most 2 WARNING alerts, in every traffic mode.
C15_WarningRateLimit ==
    [][(op'.name = "tick" /\ Len(alerts') < AlertLimit)
       => Len(OfLevel(Raised(alerts, alerts'), "WARNING")) <= 2]_vars


\* C16: the entropy of every link is in [0,1] in every reachable state.
C16_EntropyInUnitInterval ==
    \A i \in DOMAIN links : 0 <= links[i].entropy /\ links[i].entropy <= Milli

\* C16 witness: a tick left one link with more than 2 traffic types and an
\* entropy strictly inside the interval, and another with an entropy below 0.3
C16_Witness ==
    /\ op.name = "tick"
    /\ \E i \in DOMAIN links :
          /\ trace[i].ran
          /\ Cardinality(TypesOf(links[i].activeTraffic)) > 2
          /\ 300 < links[i].entropy /\ links[i].entropy < Milli
    /\ \E i \in DOMAIN links :
          /\ trace[i].ran
          /\ 0 < links[i].entropy /\ links[i].entropy < 300


\* C17: after a Link.update with dt > 0 whose offered flows all have one
\* traffic type, entropy is exactly 0 when bufferOccupancy >= 0.1 and exactly
\* 1 when bufferOccupancy < 0.1; when the total offered load is 0, entropy is
\* exactly 1.
C17_SingleClassEntropy ==
    [][\A i \in DOMAIN links :
         LET l == links'[i]
             totalLoad == TotalLoad(l.activeTraffic)
             oneClass == Cardinality(TypesOf(l.activeTraffic)) = 1
         IN  Updated(i)
             => /\ (oneClass /\ totalLoad > 0 /\ totalLoad * 10 >= l.capacity)
                      => l.entropy = 0
                /\ (oneClass /\ totalLoad > 0 /\ totalLoad * 10 < l.capacity)
                      => l.entropy = Milli
                /\ totalLoad = 0 => l.entropy = Milli]_vars

\* C17 witness: a link of capacity 4000 was offered one flow of 400
\* (occupancy exactly 0.1) and then one flow of 300, which left entropy 1
C17_Witness ==
    \E i \in DOMAIN links :
        /\ trace[i].ran
        /\ links[i].capacity = 4000
        /\ links[i].loadHistory = << 400, 300 >>
        /\ Len(links[i].activeTraffic) = 1
        /\ links[i].bufferOccupancy < 100
        /\ links[i].entropy = Milli


\* the first update of a fresh link of capacity 1000, offered one GOLD flow
\* of 500 and one BRONZE flow of 700 (in either order) with dt = 1
GoldBronzeScenario ==
    /\ ticks = 0 /\ ticks' = 1
    /\ links[1].capacity = 1000
    /\ links'[1].activeTraffic \in { << Flow(VOIP, 500), Flow(HTTP, 700) >>,
                                      << Flow(HTTP, 700), Flow(VOIP, 500) >> }
    /\ trace'[1].ran /\ trace'[1].dt = 1000

\* what the scenario ends with when the BRONZE flow takes the branch `branch`
ScenarioResult(branch) ==
    LET l == links'[1]
        log == trace'[1].log
    IN  /\ Len(log) = 2
        /\ log[1].priority = GOLD /\ log[1].outcome = "served"
        /\ log[1].remaining = 1000 * 1000
        /\ log[2].priority = BRONZE /\ log[2].outcome = branch
        /\ log[2].remaining = 500 * 1000
        /\ log[2].bronzeServed = 0
        /\ l.goldServed = 1 /\ l.bronzeDrops = 1
        /\ l.bronzeServed = 0 /\ l.goldDrops = 0
        /\ l.silverServed = 0 /\ l.silverDrops = 0

\* C18 as stated: in the scenario the GOLD flow is admitted using 500 of the
\* capacity and the BRONZE flow is dropped in the does-not-fit branch, ending
\* with goldServed = 1, bronzeDrops = 1, bronzeServed = 0, goldDrops = 0.
C18_ScenarioDoesNotFit ==
    [][GoldBronzeScenario => ScenarioResult("dropped")]_vars

\* C18 amended: in the scenario the GOLD flow is admitted using 500 of the
\* capacity and the BRONZE flow is dropped by the choke rule, the offered
\* load 1200 being above 0.7 of the capacity, ending with goldServed = 1,
\* bronzeDrops = 1, bronzeServed = 0, goldDrops = 0.
C18_ScenarioChoked ==
    [][GoldBronzeScenario => trace'[1].chokeActive /\ ScenarioResult("choked")]_vars

\* C18 witness: the state the scenario ends in
C18_Witness ==
    /\ ticks = 1
    /\ links[1].capacity = 1000
    /\ links[1].activeTraffic = << Flow(VOIP, 500), Flow(HTTP, 700) >>
    /\ trace[1].ran /\ trace[1].dt = 1000
    /\ links[1].lastUpdateTime = 1000
    /\ links[1].goldServed = 1 /\ links[1].bronzeDrops = 1

\* C19: a link of capacity 100 whose only flow is a BRONZE flow of 5000, with
\* dt = 1, ends the update with packetLoss 1.0 and status CRITICAL; after any
\* update packetLoss is 1 minus the served fraction, and the status is
\* CRITICAL whenever packetLoss > 0.05.
C19_FloodIsCritical ==
    [][\A i \in DOMAIN links :
         LET l == links'[i]
             total == trace'[i].totalLoad
             lost == total - trace'[i].servedLoad
         IN  /\ Updated(i) /\ total > 0
                => /\ (l.packetLoss - 1) * total < lost * Milli
                   /\ lost * Milli <= l.packetLoss * total
             /\ (Updated(i) /\ l.capacity = 100 /\ trace'[i].dt = 1000
                 /\ l.activeTraffic = << Flow(ATTACK, 5000) >>)
                => l.packetLoss = Milli /\ ToDict(l).status = "CRITICAL"
             /\ l.packetLoss > 50 => ToDict(l).status = "CRITICAL"]_vars

\* C19 witness: the link of capacity 100 after the flood
C19_Witness ==
    /\ links[1].capacity = 100
    /\ links[1].activeTraffic = << Flow(ATTACK, 5000) >>
    /\ trace[1].ran /\ trace[1].dt = 1000
    /\ links[1].bronzeDrops > 0
    /\ links[1].packetLoss = Milli
    /\ links[1].currentLoad = 5000


\* the neighbours of a node in the adjacency map
Neighbours(g, n) == { g[n][k] : k \in DOMAIN g[n] }

RECURSIVE Ball(_, _, _)
\* the nodes at most k hops from start
Ball(g, start, k) ==
    IF k = 0 THEN {start}
    ELSE LET b == Ball(g, start, k - 1)
         IN  b \cup UNION { Neighbours(g, n) : n \in b }

\* end can be reached from start
Reachable(g, start, end) == end \in Ball(g, start, Cardinality(NodeSet))

\* the least number of hops from start to end, when end can be reached
Distance(g, start, end) ==
    CHOOSE k \in 0..Cardinality(NodeSet) :
        /\ end \in Ball(g, start, k)
        /\ \A j \in 0..(k - 1) : end \notin Ball(g, start, j)

\* C20: shortestPath(start, end) returns a node sequence from start to end
\* whose consecutive nodes are adjacent and whose number of hops is the least
\* possible, and null exactly when end cannot be reached from start.
C20_ShortestPath ==
    op.name = "path"
    => LET path == trace.path
       IN  /\ path = <<>> <=> ~Reachable(graph, trace.start, trace.end)
           /\ path # <<>>
              => /\ path[1] = trace.start
                 /\ path[Len(path)] = trace.end
                 /\ \A k \in 1..(Len(path) - 1) : path[k + 1] \in Neighbours(graph, path[k])
                 /\ Len(path) - 1 = Distance(graph, trace.start, trace.end)

\* C20 witness: a path of 2 hops was returned on a map that also joins its
\* ends by a chain of 3 hops through other nodes
C20_Witness ==
    /\ op.name = "path"
    /\ Len(trace.path) = 3
    /\ \E y, z \in NodeSet \ { trace.path[k] : k \in DOMAIN trace.path } :
          /\ y \in Neighbours(graph, trace.start)
          /\ z \in Neighbours(graph, y)
          /\ trace.end \in Neighbours(graph, z)


\* the links of a map with the key (u, v)
WithKey(ls, u, v) == SelectSeq(ls, LAMBDA l : l.source = u /\ l.target = v)

\* l is a link u -> v as its constructor leaves it, with this capacity and
\* base latency
NewLink(l, u, v, cap, lat) ==
    /\ l.source = u /\ l.target = v
    /\ l.capacity = cap /\ l.baseLatency = lat
    /\ Fresh(l) /\ l.activeTraffic = <<>>

\* C21: addLink(a, b, capacity, baseLatency) creates exactly two Link
\* records, a->b and b->a, both with the given capacity and base latency, and
\* makes b a neighbour of a and a a neighbour of b; the 10 undirected edges of
\* the fixed topology yield exactly 20 distinct directed links.
C21_AddLinkBothWays ==
    [][/\ (op'.name = "addLink")
          => LET u == trace'.u
                 v == trace'.v
                 created == { << u, v >>, << v, u >> }
             IN  /\ Len(WithKey(links', u, v)) = 1
                 /\ NewLink(WithKey(links', u, v)[1], u, v, trace'.cap, trace'.lat)
                 /\ Len(WithKey(links', v, u)) = 1
                 /\ NewLink(WithKey(links', v, u)[1], v, u, trace'.cap, trace'.lat)
                 /\ Keys(links') = Keys(links) \cup created
                 /\ Len(links') = Len(links) + Cardinality(created \ Keys(links))
                 /\ \A i \in DOMAIN links :
                       << links[i].source, links[i].target >> \notin created
                       => links'[i] = links[i]
                 /\ graph'[u] = Append(graph[u], v)
                 /\ graph'[v] = Append(graph[v], u)
                 /\ v \in Neighbours(graph', u) /\ u \in Neighbours(graph', v)
                 /\ \A n \in NodeSet \ {u, v} : graph'[n] = graph[n]
       /\ (op'.name = "setup" /\ links = <<>>)
          => /\ Len(links') = 2 * Len(FloorLinks)
             /\ Cardinality(Keys(links')) = 20
             /\ \A k \in DOMAIN FloorLinks :
                   LET e == FloorLinks[k]
                   IN  /\ Len(WithKey(links', e[1], e[2])) = 1
                       /\ NewLink(WithKey(links', e[1], e[2])[1], e[1], e[2], e[3], e[4])
                       /\ Len(WithKey(links', e[2], e[1])) = 1
                       /\ NewLink(WithKey(links', e[2], e[1])[1], e[2], e[1], e[3], e[4])
                       /\ e[2] \in Neighbours(graph', e[1])
                       /\ e[1] \in Neighbours(graph', e[2])]_vars

\* C21 witness: addLink joined two nodes that the fixed topology, set up
\* before, does not join: the map holds 22 links
C21_Witness ==
    /\ op.name = "addLink"
    /\ Len(links) = 2 * Len(FloorLinks) + 2
    /\ Cardinality(Keys(links)) = 22
    /\ trace.v \in Neighbours(graph, trace.u)


\* C22: the snapshot's total throughput is the sum of currentLoad over all
\* links, and its average entropy is the mean of the link entropies weighted
\* by currentLoad (to the two decimals the snapshot carries), 1.0 when the
\* total load is 0; the average entropy is always in [0,1].
C22_SnapshotTotals ==
    LET total == SumSeq([i \in DOMAIN links |-> links[i].currentLoad])
        weighted == SumSeq([i \in DOMAIN links |-> links[i].entropy * links[i].currentLoad])
        stats == Snapshot.global_stats
        avg == stats.avg_system_entropy
    IN  /\ stats.total_throughput_mbps = total
        /\ total = 0 => avg = 100
        /\ total > 0 => /\ 10 * avg * total - weighted <= 5 * total
                        /\ weighted - 10 * avg * total < 6 * total
        /\ 0 <= avg /\ avg <= 100

\* C22 witness: a snapshot of links that carry different loads with different
\* entropies, whose average is strictly inside the interval
C22_Witness ==
    /\ op.name = "snapshot"
    /\ Snapshot.global_stats.total_throughput_mbps > 0
    /\ 0 < Snapshot.global_stats.avg_system_entropy
    /\ Snapshot.global_stats.avg_system_entropy < 100
    /\ \E i, j \in DOMAIN links :
          /\ links[i].currentLoad > links[j].currentLoad
          /\ links[j].currentLoad > 0
          /\ links[i].entropy < links[j].entropy


\* C23: the serialized status of a link is CRITICAL if packetLoss > 0.05,
\* otherwise WARNING if currentLoad > 0.8 * capacity, otherwise NORMAL: one of
\* the three in every case, CRITICAL taking precedence over WARNING.
C23_StatusClassification ==
    [][\A i \in DOMAIN links :
         LET l == links'[i]
             total == trace'[i].totalLoad
             lossy == (total - trace'[i].servedLoad) * 20 > total
             loaded == l.currentLoad * 10 > 8 * l.capacity
             status == ToDict(l).status
         IN  Updated(i)
             => /\ status \in {"CRITICAL", "WARNING", "NORMAL"}
                /\ status = "CRITICAL" <=> lossy
                /\ status = "WARNING" <=> (~lossy /\ loaded)
                /\ status = "NORMAL" <=> (~lossy /\ ~loaded)]_vars

\* C23 witness: a link offered its whole capacity in GOLD flows, all served:
\* no loss, a load above 0.8 of the capacity, status WARNING
C23_Witness ==
    /\ trace[1].ran
    /\ links[1].packetLoss = 0
    /\ links[1].currentLoad = links[1].capacity
    /\ trace[1].servedLoad = links[1].currentLoad
    /\ ToDict(links[1]).status = "WARNING"


\* a BRONZE flow was served earlier in the same update than entry k of its log
BronzeServedBefore(log, k) ==
    \E j \in 1..(k - 1) : log[j].priority = BRONZE /\ log[j].outcome = "served"

\* C24: a GOLD flow whose demand does not fit the remaining capacity is
\* admitted by preemption only if a BRONZE flow has been served earlier in the
\* same tick; otherwise it is dropped and goldDrops is incremented.
C24_PreemptionWithinTick ==
    [][\A i \in DOMAIN links :
         LET log == trace'[i].log
             dt == trace'[i].dt
             unfit == { k \in DOMAIN log : log[k].priority = GOLD /\ ~Fits(log[k], dt) }
         IN  Updated(i)
             => /\ \A k \in unfit :
                      IF BronzeServedBefore(log, k)
                      THEN log[k].outcome = "preempted"
                      ELSE log[k].outcome = "dropped"
                /\ links'[i].goldDrops
                     = links[i].goldDrops
                       + Cardinality({ k \in unfit : ~BronzeServedBefore(log, k) })]_vars


\* C25: in every tick the time-sliced demand of the flows admitted on a link
\* (the sum of rate * dt over the flows added to servedLoad) does not exceed
\* capacity * dt, that is servedLoad <= capacity, ticks with GOLD preemption
\* included.
C25_ServedWithinCapacity ==
    [][\A i \in DOMAIN links :
         LET log == trace'[i].log
             admitted == SelectSeq(log, LAMBDA e : e.outcome \in {"served", "preempted"})
         IN  Updated(i)
             => /\ trace'[i].servedLoad = TotalLoad(admitted)
                /\ TotalLoad(admitted) * trace'[i].dt <= links'[i].capacity * trace'[i].dt
                /\ trace'[i].servedLoad <= links'[i].capacity]_vars


\* the priority of a traffic class: the one it is mapped to, BRONZE when it
\* has no mapping
PriorityOf(type) == IF type \in TrafficType THEN TRAFFIC_PRIORITY_MAP(type) ELSE BRONZE

\* GOLD is considered first, SILVER second, BRONZE last
Rank(priority) ==
    CASE priority = GOLD -> 1
      [] priority = SILVER -> 2
      [] priority = BRONZE -> 3

\* the flows of a priority, in the order of the list
OfPriority(flows, priority) == SelectSeq(flows, LAMBDA t : PriorityOf(t.type) = priority)

\* C26: within a tick the flows of a link are considered for admission in
\* descending priority: every GOLD flow before every SILVER flow and every
\* SILVER flow before every BRONZE flow, flows of equal priority in
\* generation order; a traffic class with no priority mapping counts as
\* BRONZE.
C26_AdmissionOrder ==
    [][\A i \in DOMAIN links :
         LET flows == links'[i].activeTraffic
             log == trace'[i].log
             considered == [k \in DOMAIN log |-> Flow(log[k].type, log[k].amount)]
         IN  Updated(i)
             => /\ Len(considered) = Len(flows)
                /\ \A j, k \in DOMAIN considered :
                      j < k => Rank(PriorityOf(considered[j].type))
                               <= Rank(PriorityOf(considered[k].type))
                /\ \A priority \in TrafficPriority :
                      OfPriority(considered, priority) = OfPriority(flows, priority)
                /\ \A k \in DOMAIN log : log[k].priority = PriorityOf(log[k].type)]_vars

\* C26 witness: an update offered a flow of the unmapped class, then a BRONZE
\* flow, then a GOLD flow (or the first and the last only) considered the
\* GOLD flow first and the unmapped one before the BRONZE one
C26_Witness ==
    LET flows == links[1].activeTraffic
        log == trace[1].log
    IN  /\ trace[1].ran
        /\ Len(flows) >= 2
        /\ flows[1].type = Unmapped
        /\ flows[Len(flows)].type = VOIP
        /\ log[1].type = VOIP
        /\ log[2].type = Unmapped
        /\ log[2].priority = BRONZE


\* what an update decided: the flows considered with the branch each took,
\* the counters, servedLoad, packetLoss and bufferOccupancy it left
Admission(l, tr) ==
    [ decisions |-> [k \in DOMAIN tr.log |->
                        << tr.log[k].type, tr.log[k].amount, tr.log[k].outcome >>],
      counters |-> << l.goldServed, l.silverServed, l.bronzeServed,
                      l.goldDrops, l.silverDrops, l.bronzeDrops >>,
      servedLoad |-> tr.servedLoad,
      packetLoss |-> l.packetLoss,
      bufferOccupancy |-> l.bufferOccupancy,
      chokeActive |-> l.chokeActive ]

\* C27: admission does not depend on the tick cadence: for the same offered
\* flows, capacity and prior counters, the flows served and dropped by
\* Link.update and the resulting counters, servedLoad, packetLoss and
\* bufferOccupancy are the same for every elapsed time dt > 0.
C27_CadenceIndependent ==
    [][\A i \in DOMAIN links :
         Updated(i)
         => \A d \in CadenceElapses, r \in LinkRandoms :
               LET offered == [links[i] EXCEPT !.activeTraffic = links'[i].activeTraffic]
               IN  \A other \in { LinkUpdate(offered, links[i].lastUpdateTime + d, r) } :
                      /\ other.tr.ran
                      /\ Admission(other.link, other.tr) = Admission(links'[i], trace'[i])]_vars

\* C27 witness: an update made ten minutes after the one before, in which one
\* GOLD flow was served, one admitted by preemption and none dropped
C27_Witness ==
    /\ trace[1].ran
    /\ trace[1].dt = 600000
    /\ Len(Decided(trace[1].log, GOLD, {"served"})) = 1
    /\ Len(Decided(trace[1].log, GOLD, {"preempted"})) = 1
    /\ links[1].loadHistory # << trace[1].totalLoad >>


\* C28: in every tick the anomaly and alert evaluation of a link happens only
\* after Link.update of every link has completed for that tick: no alert is
\* appended while some link has not yet been updated in the tick.
C28_AlertsAfterAllUpdates ==
    [][(op'.name = "tick" /\ ticks' = ticks + 1)
       => \A i \in DOMAIN trace' :
             trace'[i].appended => trace'[i].updatedLinks = Len(links')]_vars


\* C29: the z-score check is evaluated for a link as soon as its load
\* history holds at least 10 samples and the mode is not NORMAL (with exactly
\* 10 samples a z-score above 3.0 raises a WARNING), and never with fewer
\* than 10 samples.
C29_ZScoreFromTenSamples ==
    [][(op'.name = "tick" /\ ticks' = ticks + 1)
       => \A i \in DOMAIN links' :
             trace'[i].zScoreChecked
             <=> (trafficMode' # "NORMAL" /\ Len(links'[i].loadHistory) >= 10)]_vars

\* a z-score WARNING was raised by the last tick
ZScoreRaised ==
    /\ op.name = "tick"
    /\ \E k \in DOMAIN alerts : alerts[k].msg[1] = "Z-Score" /\ alerts[k].time = TimeStr(clock)


\* C30: a link's load history never holds more than 50 samples; each update
\* with dt > 0 appends exactly one sample, the tick's total offered load, at
\* the end, and once 50 are held the oldest sample is removed first, so the
\* history is always the last min(50, n) offered-load values in order.
C30_HistoryFifo ==
    [][(op'.name = "tick")
       => LET old == links[1].loadHistory
              new == links'[1].loadHistory
              load == TotalLoad(links'[1].activeTraffic)
          IN  /\ Len(new) <= 50
              /\ (links'[1].lastUpdateTime > links[1].lastUpdateTime)
                 => /\ new[Len(new)] = load
                    /\ IF Len(old) < 50
                       THEN new = Append(old, load)
                       ELSE new = Append(Tail(old), load)
              /\ (links'[1].lastUpdateTime = links[1].lastUpdateTime) => new = old
              /\ Len(new) = Min(50, Len(trace'))
              /\ EndsWith(trace', new)]_vars

\* C30 witness: the link has had more than 50 updates with dt > 0, its
\* history holds the last 50 offered loads and no longer the first
C30_Witness ==
    /\ op.name = "tick"
    /\ Len(trace) > 50
    /\ Len(links[1].loadHistory) = 50
    /\ links[1].loadHistory[1] = trace[Len(trace) - 49]
    /\ links[1].loadHistory[1] # trace[1]
    /\ links[1].loadHistory[50] = links[1].currentLoad


\* the rates of the flows the admission loop admitted, by fit or by preemption
AdmittedLoad(log) ==
    SumSeq([k \in DOMAIN log |->
               IF log[k].outcome \in {"served", "preempted"} THEN log[k].amount ELSE 0])

\* C31: after every update with dt > 0, currentLoad equals the total offered
\* load (not the served load) and packetLoss equals
\* max(0, 1 - servedLoad/totalOfferedLoad), 0 when the offered load is 0;
\* packetLoss is in [0,1] in every reachable state.  (packetLoss is kept in
\* thousandths, rounded up: it is the least p with p * total >= lost * 1000.)
C31_LoadAndLoss ==
    [][/\ \A i \in DOMAIN links : links[i].packetLoss >= 0 /\ links[i].packetLoss <= Milli
       /\ \A i \in DOMAIN links' :
             /\ links'[i].packetLoss >= 0 /\ links'[i].packetLoss <= Milli
             /\ Updated(i)
                => LET l == links'[i]
                       total == TotalLoad(l.activeTraffic)
                       served == AdmittedLoad(trace'[i].log)
                   IN  /\ l.currentLoad = total
                       /\ total = 0 => l.packetLoss = 0
                       /\ (total > 0 /\ served >= total) => l.packetLoss = 0
                       /\ (total > 0 /\ served < total)
                          => /\ l.packetLoss * total >= (total - served) * Milli
                             /\ (l.packetLoss - 1) * total < (total - served) * Milli]_vars

\* C31 witness: a link was updated with part of its offered load not served:
\* currentLoad is the offered load, above the served load, and the loss is
\* strictly between 0 and 1
C31_Witness ==
    \E i \in DOMAIN links :
        /\ op.name = "tick"
        /\ trace[i].ran
        /\ AdmittedLoad(trace[i].log) > 0
        /\ AdmittedLoad(trace[i].log) < TotalLoad(links[i].activeTraffic)
        /\ links[i].currentLoad = TotalLoad(links[i].activeTraffic)
        /\ links[i].packetLoss > 0
        /\ links[i].packetLoss < Milli


\* C32: bufferOccupancy of every link is in [0,1] in every reachable state:
\* it equals min(1, totalOfferedLoad/capacity), is 0 when capacity is 0, and
\* chokeActive is true exactly when bufferOccupancy > 0.7 as of the link's
\* last completed update (a call with dt <= 0 leaves both as they were).
C32_OccupancyAndChoke ==
    [][\A i \in DOMAIN links' :
          LET l == links'[i]
              total == TotalLoad(l.activeTraffic)
          IN  /\ l.bufferOccupancy >= 0 /\ l.bufferOccupancy <= Milli
              /\ l.chokeActive <=> (l.bufferOccupancy * 10 > 7 * Milli)
              /\ Updated(i)
                 => /\ l.capacity = 0 => l.bufferOccupancy = 0
                    /\ (l.capacity > 0 /\ total >= l.capacity) => l.bufferOccupancy = Milli
                    /\ (l.capacity > 0 /\ total < l.capacity)
                       => l.bufferOccupancy * l.capacity = total * Milli
                    /\ l.chokeActive <=> (l.capacity > 0 /\ total * 10 > 7 * l.capacity)
              /\ (ticks' = ticks + 1 /\ ~trace'[i].ran)
                 => /\ l.bufferOccupancy = links[i].bufferOccupancy
                    /\ l.chokeActive = links[i].chokeActive]_vars

\* C32 witness: a link offered more than its capacity has been updated and
\* then called again with dt = 0 and a smaller offer: the occupancy is still
\* 1 and choke still active
C32_Witness ==
    /\ op.name = "tick"
    /\ ~trace[1].ran
    /\ links[1].capacity > 0
    /\ links[1].currentLoad > links[1].capacity
    /\ TotalLoad(links[1].activeTraffic) * 10 < 7 * links[1].capacity
    /\ links[1].bufferOccupancy = Milli
    /\ links[1].chokeActive


\* token counts a bucket could hold: empty, half full, full
TokenCounts(l) == {0, l.bucketCapacity \div 2, l.bucketCapacity}

Mixture(mode) ==
    CASE mode = "NORMAL" -> {IOT, DNS, HTTP, NTP}
      [] mode = "CONGESTED" -> {IOT, DNS, HTTP, DICOM, VOIP, EMR}
      [] OTHER -> {IOT, DNS, HTTP, ATTACK}

\* the most flows one tick of a mode pushes on one link: the base flows, the
\* bottleneck picks, the mesh flow, one flow per attack source
MostFlows(mode) ==
    CASE mode = "NORMAL" -> 4 + 1
      [] mode = "CONGESTED" -> 5 + Bottlenecks + 1
      [] OTHER -> 4 + 1 + Len(AttackSources)

\* C34: flows live for one tick and mode changes take effect immediately:
\* each running tick first empties every link's offered-flow list and
\* regenerates it for the mode active at that tick, so the first tick after
\* setMode(m) offers only flows of mode m's mixture; in particular after
\* switching from DDOS to NORMAL no link is offered a flood-class flow in the
\* next tick.
C34_FlowsLiveOneTick ==
    [][(ticks' = ticks + 1)
       => \A i \in DOMAIN links' :
             LET flows == links'[i].activeTraffic
             IN  /\ TypesOf(flows) \subseteq Mixture(trafficMode)
                 /\ {IOT, DNS, HTTP} \subseteq TypesOf(flows)
                 /\ Len(flows) <= MostFlows(trafficMode)
                 /\ \A type \in {IOT, DNS} :
                       Len(SelectSeq(flows, LAMBDA t : t.type = type)) = 1
                 /\ trafficMode # "DDOS" => ATTACK \notin TypesOf(flows)]_vars

\* C34 witness: a NORMAL tick made after a DDOS tick (the log holds the DDoS
\* alert that tick raised): no link is offered a flood-class flow
C34_Witness ==
    /\ op.name = "tick"
    /\ running
    /\ ticks >= 2
    /\ trafficMode = "NORMAL"
    /\ \E k \in DOMAIN alerts : alerts[k].msg[1] = "DDoS"
    /\ \E i \in DOMAIN links : links[i].bronzeDrops > 0
    /\ \A i \in DOMAIN links :
          /\ links[i].activeTraffic # <<>>
          /\ ATTACK \notin TypesOf(links[i].activeTraffic)


\* the shortest paths of the hospital floors from the four compromised
\* sources to the core node; each is the only path of its length
FloodPaths ==
    << << "Public-Wifi", "Admin", "Server Room" >>,
       << "Lab", "Server Room" >>,
       << "Wards", "Admin", "Server Room" >>,
       << "OT-1", "ICU-A", "Server Room" >> >>

\* the flood-class flows offered to a link with a rate in lo..hi
Floods(l, lo, hi) ==
    SelectSeq(l.activeTraffic, LAMBDA t : t.type = ATTACK /\ t.amount >= lo /\ t.amount <= hi)

\* the link carries the mesh flow of the tick: a second HTTP flow
CarriesMesh(l) == Len(SelectSeq(l.activeTraffic, LAMBDA t : t.type = HTTP)) = 2

\* C35: in every DDOS-mode tick, each of the four fixed compromised sources
\* (Public-Wifi, Lab, Wards, OT-1) injects one large flood-class flow (3500
\* to 6000) on every directed link of its shortest path to the core node
\* 'Server Room', independently of whether the random-mesh flow is generated
\* that tick, and every link of the network additionally carries one
\* background flood-class flow (100 to 300).
C35_FloodPaths ==
    [][(ticks' = ticks + 1 /\ trafficMode = "DDOS")
       => /\ \A s \in DOMAIN FloodPaths :
                /\ FloodPaths[s][1] = AttackSources[s]
                /\ FloodPaths[s][Len(FloodPaths[s])] = "Server Room"
                /\ \A h \in 1..(Len(FloodPaths[s]) - 1) :
                      \E i \in DOMAIN links' :
                          /\ links'[i].source = FloodPaths[s][h]
                          /\ links'[i].target = FloodPaths[s][h + 1]
                          /\ Len(Floods(links'[i], 3500, 6000)) >= 1
          /\ \A i \in DOMAIN links' :
                /\ Len(Floods(links'[i], 3500, 6000))
                      = Cardinality({ s \in DOMAIN FloodPaths : OnPath(FloodPaths[s], links'[i]) })
                /\ Len(Floods(links'[i], 100, 300)) = 1
                /\ Len(Floods(links'[i], 0, 6000)) = Len(Floods(links'[i], 0, 0))
                      + Len(Floods(links'[i], 100, 300)) + Len(Floods(links'[i], 3500, 6000))
                /\ Len(Floods(links'[i], 0, 0)) = 0]_vars

\* C35 witness: a DDOS tick in which a mesh flow was generated: the link
\* Admin -> Server Room carries the floods of Public-Wifi and of Wards and
\* one background flood
C35_Witness ==
    /\ op.name = "tick"
    /\ running
    /\ ticks >= 1
    /\ trafficMode = "DDOS"
    /\ \E i \in DOMAIN links : CarriesMesh(links[i])
    /\ \E i \in DOMAIN links :
          /\ links[i].source = "Admin"
          /\ links[i].target = "Server Room"
          /\ Len(Floods(links[i], 3500, 6000)) = 2
          /\ Len(Floods(links[i], 100, 300)) = 1

\* a DDOS tick in which no mesh flow was generated
DDoSTickWithoutMesh ==
    /\ op.name = "tick"
    /\ running
    /\ ticks >= 1
    /\ trafficMode = "DDOS"
    /\ \A i \in DOMAIN links :
          /\ links[i].activeTraffic # <<>>
          /\ ~CarriesMesh(links[i])
          /\ ATTACK \in TypesOf(links[i].activeTraffic)


\* the congestion severity score of the claim, in thousandths:
\* 0.5 * min(3, ewmaRtt/baseLatency) + 20 * (10 * packetLoss) + 2 * (1 - entropy)
SeverityScore(l) ==
    Min(3 * Milli, l.ewmaRtt \div l.baseLatency) \div 2
    + 20 * (10 * l.packetLoss)
    + 2 * (Milli - l.entropy)

\* the alert is about link l: the DDoS form names the target and the load,
\* the congestion form the source, the target and the loss
AlertOf(a, l) ==
    IF a.msg[1] = "DDoS"
    THEN a.msg[3] = l.target /\ a.msg[4] = l.currentLoad
    ELSE a.msg[2] = l.source /\ a.msg[3] = l.target /\ a.msg[5] = l.packetLoss

\* C36: a CRITICAL alert is raised for a link in a tick only if that link's
\* congestion severity score is greater than 4.0 and the mode is not NORMAL;
\* its wording is the DDoS form exactly when the mode is DDOS and the
\* congestion form otherwise.
C36_CriticalOnlyWhenSevere ==
    [][(op'.name = "tick")
       => LET critical == OfLevel(Raised(alerts, alerts'), "CRITICAL")
          IN  \A k \in DOMAIN critical :
                 /\ trafficMode # "NORMAL"
                 /\ critical[k].msg[1] \in {"DDoS", "Congestion"}
                 /\ critical[k].msg[1] = "DDoS" <=> trafficMode = "DDOS"
                 /\ critical[k].msg[1] = "Congestion" <=> trafficMode = "CONGESTED"
                 /\ \E i \in DOMAIN links' :
                       /\ AlertOf(critical[k], links'[i])
                       /\ trace'[i].appended
                       /\ SeverityScore(links'[i]) > 4 * Milli]_vars

\* C36 witness: the log holds a CRITICAL alert of each wording, and the
\* last tick, in a mode other than NORMAL, appended an alert for a link whose
\* score is above 4.0
C36_Witness ==
    /\ op.name = "tick"
    /\ running
    /\ trafficMode # "NORMAL"
    /\ \E k \in DOMAIN alerts : alerts[k].level = "CRITICAL" /\ alerts[k].msg[1] = "DDoS"
    /\ \E k \in DOMAIN alerts : alerts[k].level = "CRITICAL" /\ alerts[k].msg[1] = "Congestion"
    /\ \E i \in DOMAIN links :
          /\ trace[i].appended
          /\ SeverityScore(links[i]) > 4 * Milli
          /\ links[i].packetLoss > 0


\* C37: while the traffic mode is NORMAL no alert of any level is appended
\* to the alert log by any tick, whatever the links' load, loss, entropy or
\* history.
C37_NormalModeSilent ==
    [][(op'.name = "tick" /\ trafficMode = "NORMAL") => alerts' = alerts]_vars

\* C37 witness: a running tick in NORMAL mode has visited a link whose score
\* is above 4.0, whose loss is above 0.05 and whose entropy is below 0.3, and
\* has appended nothing for any link
C37_Witness ==
    /\ op.name = "tick"
    /\ running
    /\ ticks >= 2
    /\ trafficMode = "NORMAL"
    /\ \A i \in DOMAIN links :
          /\ ~trace[i].appended
          /\ ATTACK \notin TypesOf(links[i].activeTraffic)
          /\ links[i].activeTraffic # <<>>
    /\ \E i \in DOMAIN links :
          /\ SeverityScore(links[i]) > 4 * Milli
          /\ links[i].packetLoss > 50
          /\ links[i].entropy * 10 < 3 * Milli


\* the QoS notice has been raised
QoSNoticeRaised == \E k \in DOMAIN alerts : alerts[k].msg = << "QoS" >>


\* C38: all six served/dropped counters of every link are non-negative in
\* every reachable state; in particular bronzeServed never goes below 0
\* through any sequence of GOLD preemptions.
C38_CountersNonNegative ==
    \A i \in DOMAIN links :
        /\ links[i].goldServed >= 0
        /\ links[i].silverServed >= 0
        /\ links[i].bronzeServed >= 0
        /\ links[i].goldDrops >= 0
        /\ links[i].silverDrops >= 0
        /\ links[i].bronzeDrops >= 0

\* C38 witness: the last update admitted a GOLD flow by preemption, which
\* took bronzeServed down to 0
C38_Witness ==
    /\ op.name = "tick"
    /\ trace[1].ran
    /\ \E k \in DOMAIN trace[1].log :
          /\ trace[1].log[k].outcome = "preempted"
          /\ trace[1].log[k].bronzeServed = 1
    /\ links[1].bronzeServed = 0
    /\ links[1].bronzeDrops > 0


\* every numeric field of the link is a number
AllNumbers(l) ==
    /\ \A f \in {"currentLoad", "packetLoss", "jitter", "goldDrops", "silverDrops",
                  "bronzeDrops", "goldServed", "silverServed", "bronzeServed",
                  "bufferOccupancy", "ewmaRtt", "currentRtt", "tokens",
                  "lastUpdateTime", "entropy"} : l[f] \in Int
    /\ \A k \in DOMAIN l.loadHistory : l.loadHistory[k] \in Int

\* C39: when Link.update is invoked with elapsed time dt <= 0 (two updates
\* at the same timestamp) it changes no field of the link: counters,
\* currentLoad, load history, packetLoss, latency, entropy, tokens and
\* lastUpdateTime all keep their previous values, and no NaN or division by
\* zero results.  (The offered flows are the caller's to set.)
C39_NoTimeNoChange ==
    [][(op'.name = "tick" /\ clock' <= links[1].lastUpdateTime)
       => /\ links'[1] = [links[1] EXCEPT !.activeTraffic = links'[1].activeTraffic]
          /\ \A f \in {"goldDrops", "silverDrops", "bronzeDrops", "goldServed",
                        "silverServed", "bronzeServed", "currentLoad", "loadHistory",
                        "packetLoss", "ewmaRtt", "currentRtt", "jitter", "entropy",
                        "tokens", "lastUpdateTime", "bufferOccupancy", "chokeActive"} :
                links'[1][f] = links[1][f]
          /\ ~trace'[1].ran
          /\ AllNumbers(links'[1])]_vars

\* C39 witness: a link that has served and dropped flows is called again at
\* the timestamp of its last update with a different offer, and keeps the
\* load, the loss and the history of that update
C39_Witness ==
    /\ op.name = "tick"
    /\ ~trace[1].ran
    /\ clock = links[1].lastUpdateTime
    /\ links[1].lastUpdateTime > 0
    /\ Len(links[1].loadHistory) = 1
    /\ links[1].packetLoss > 0
    /\ links[1].currentLoad # TotalLoad(links[1].activeTraffic)
    /\ TotalLoad(links[1].activeTraffic) > 0

\* a link called with the clock set back behind its last update
CalledWithNegativeDt ==
    /\ op.name = "tick"
    /\ ~trace[1].ran
    /\ clock < links[1].lastUpdateTime
    /\ TotalLoad(links[1].activeTraffic) > 0


\* the number of Link records stored under the key u -> v
Records(ls, u, v) == Len(WithKey(ls, u, v))

\* C40: the adjacency map and the link map stay consistent in every
\* reachable state, including after any number of resets: v is a neighbour
\* of u exactly when a Link record keyed u->v exists, so every consecutive
\* pair of nodes on any path returned by shortestPath has a Link on which
\* traffic can be injected.
C40_GraphMatchesLinks ==
    /\ \A u \in NodeSet, v \in NodeSet :
          /\ v \in Neighbours(graph, u) <=> Records(links, u, v) = 1
          /\ Records(links, u, v) <= 1
    /\ \A start \in NodeSet, end \in NodeSet :
          \A path \in { ShortestPath(graph, start, end) } :
              \A h \in 1..(Len(path) - 1) : Records(links, path[h], path[h + 1]) = 1

\* C40 witness: after two resets the adjacency lists hold every neighbour
\* three times, and the path from Public-Wifi to the core node still runs
\* over two stored links
C40_Witness ==
    /\ op.name = "reset"
    /\ resets = 2
    /\ Len(graph["Admin"]) = 3 * Cardinality(Neighbours(graph, "Admin"))
    /\ ShortestPath(graph, "Public-Wifi", "Server Room")
          = << "Public-Wifi", "Admin", "Server Room" >>
    /\ Records(links, "Public-Wifi", "Admin") = 1
    /\ Records(links, "Admin", "Server Room") = 1
    /\ Len(links) = 2 * Len(FloorLinks)

====
